---- MODULE Spec2Model ----
(***************************************************************************)
(* Model of the weed package of cdn-origin: the VolumeCache (a map from    *)
(* volume id to location URLs with a per-id rotation cursor, guarded by a  *)
(* sync.RWMutex) and Seaweed.lookupVolume, which resolves a volume id      *)
(* through the cache and, on a miss, through the SeaweedFS master.         *)
(*                                                                         *)
(* Every goroutine is a small state machine: th[t].pc names the statement  *)
(* goroutine t executes next.  A step of the model is one statement (or    *)
(* one run of statements that touches no shared state).                    *)
(***************************************************************************)
EXTENDS Integers, Sequences, FiniteSets, TLC

\* ------------------------------------------------------------------ bounds
MaxThreads == 2      \* goroutines sharing the cache
MaxLen == 2          \* longest location list the master reports / Add stores
MaxCalls == 3        \* GetNext calls followed per id after an Add
CallsPerThread == 3  \* GetNext calls each worker of the load test issues

Threads == 1..MaxThreads

\* Volume ids the callers use, and the ids concurrent callers contend on.
VolumeIds == {1, 2}
ContendedIds == {1}

\* Location URLs of volume servers.
AllUrls == <<"a", "b", "c", "d">>
Urls == {AllUrls[i] : i \in 1..MaxLen}

\* The []string values handed to Add: the empty list, and every list of
\* 1..MaxLen distinct URLs that is a run of the cycle a, b, ..., a, b, ...
Run(start, len) == [i \in 1..len |-> AllUrls[((start + i - 2) % MaxLen) + 1]]
UrlLists == {<<>>} \cup {Run(s, k) : s \in 1..MaxLen, k \in 1..MaxLen}

\* The list of the load test: three distinct addresses.
FairList == <<"a", "b", "c">>
FairUrls == {FairList[i] : i \in 1..Len(FairList)}

\* ------------------------------------------------------------------ state
VARIABLES
    volumeCache,  \* VolumeCache.volumeCache: map[uint32][]string
    next,         \* VolumeCache.next: map[uint32]int
    writer,       \* goroutine holding the RWMutex for writing, 0 when none
    readers,      \* goroutines holding the RWMutex for reading
    th,           \* per goroutine: pc and the locals of the running call
    fault,        \* "none", or the runtime fault that ended the process
    served,       \* history: per id, GetNext calls that returned a URL since the entry was last stored or dropped
    calls,        \* history: per goroutine, GetNext calls issued by the load test
    returned,     \* history: per URL, times a load-test GetNext returned it
    directory     \* ThumbnailCache.Directory: per key, the chunks of the file stored there

vars == <<volumeCache, next, writer, readers, th, fault, served, calls, returned, directory>>

\* Go map operations.
MapHas(m, k) == k \in DOMAIN m
\* A store that overwrites every key of the map.
MapPutAll(m, k, v) == [i \in DOMAIN m \cup {k} |-> v]
MapPut(m, k, v) == [i \in DOMAIN m \cup {k} |-> IF i = k THEN v ELSE m[i]]
\* A delete that leaves the key in place.
MapKeep(m, k) == m
MapDel(m, k) == [i \in DOMAIN m \ {k} |-> m[i]]
EmptyMap == [i \in {} |-> 0]

\* m[k] with the zero value when k is missing (n, _ := v.next[id]).
MapGetInt(m, k) == IF MapHas(m, k) THEN m[k] ELSE 0
\* A read that hands back the first element of the entry only.
MapGetFirst(m, k) == IF MapHas(m, k) /\ Len(m[k]) > 0 THEN <<m[k][1]>> ELSE <<>>
\* m[k] with the nil slice when k is missing (vol, _ := v.volumeCache[id]).
MapGetSlice(m, k) == IF MapHas(m, k) THEN m[k] ELSE <<>>

\* A goroutine between calls.  last, ret, got, over and stale describe the call
\* that returned last: its method, the string or slice it returned, whether
\* it was an Add that overwrote a cursor that had advanced, and whether it was
\* a GetNext whose entry was rewritten between its read and its store.
\* For lookupVolume: nlook counts the requests it sent to the master, ok says
\* that the master's reply was accepted and cached, cold that the id had no
\* entry when the call began, after that the call began right after a
\* lookupVolume of the same id by this goroutine that cached a reply and
\* returned a URL, locs is the locations array of the reply the call cached,
\* exp the URL round-robin order over the entry makes due when the call
\* begins ("?" when the id has no entry then), before the two maps as they
\* were when the call began (for Empty: when it stored the fresh map),
\* blocked the goroutines that were waiting for the master's reply when the
\* call began and have been waiting ever since.
\* For Seaweed.Get: outer is "get" while the goroutine is inside Get, fid and
\* query are its arguments, volumeURL and requestURL its locals (as text),
\* nreq counts the requests it sent to a volume server, result is what the
\* call returned and what it wrote to the writer, prevURL the address the
\* goroutine's previous Get call sent its request to when that call was for
\* the same volume ("" otherwise), cause the failure that ended the call's
\* lookupVolume ("none" when nothing failed), prevCause and prevResult the
\* cause and the result of the goroutine's previous Get call when its
\* lookupVolume failed.
\* For recordMetrics: collector is the configuration of the Collector,
\* hostname the request's Host header, hostStr and isValid what
\* MatchHostname returned for it, prevHostname the Host header of the
\* goroutine's previous request and prevRecorded the hostname recorded for it.
\* For main: postgresURI is the configured database URI, pingReply what
\* fasthttp.GetTimeout handed to Ping, pingErr the error Ping returned.
NoCollector == [enableHostnameWhitelist |-> FALSE, hostnameWhitelist |-> <<>>]
NoPing == [err |-> FALSE, status |-> -1]
\* For Transform: header is the decoded image header, opts the width and
\* height of the lilliput.ImageOptions handed to ops.Transform and its
\* resize method.
NoHeader == [Width |-> 0, Height |-> 0]
NoOpts == [Width |-> -1, Height |-> -1, ResizeMethod |-> "none"]

NoResult == [statusCode |-> -1, headers |-> "nil", err |-> FALSE, written |-> <<>>]

\* sql.NullString: NULL scans as Valid false and the empty string.
NullFid == [Valid |-> FALSE, String |-> <<>>]
NullText == [Valid |-> FALSE, String |-> ""]

\* No row scanned, no response begun, no db.Object selected.
NoRow == [object_type |-> -1, backend_file_id |-> NullFid, content_type |-> NullText,
          long_url |-> NullText]
NoCtx == [statusCode |-> 0, contentType |-> "", body |-> <<>>]
NoObject == [ObjectType |-> -1, ContentType |-> "nil", MD5Hash |-> "nil", DestURL |-> "nil"]

Idle == [pc |-> "idle", caller |-> "none", id |-> 0, urls |-> <<>>, vol |-> <<>>,
         n |-> 0, last |-> "none", ret |-> "", got |-> <<>>, over |-> FALSE,
         stale |-> FALSE, nlook |-> 0, ok |-> FALSE, cold |-> FALSE, after |-> FALSE,
         locs |-> <<>>, exp |-> "?", before |-> [volumeCache |-> EmptyMap, next |-> EmptyMap],
         blocked |-> {}, outer |-> "none", fid |-> <<>>, query |-> <<>>,
         volumeURL |-> <<>>, requestURL |-> <<>>, nreq |-> 0, result |-> NoResult,
         prevURL |-> <<>>, cause |-> "none", prevCause |-> "none", prevResult |-> NoResult,
         collector |-> NoCollector, hostname |-> <<>>, hostStr |-> <<>>, isValid |-> FALSE,
         prevHostname |-> <<>>, prevRecorded |-> <<>>,
         postgresURI |-> "", pingReply |-> NoPing, pingErr |-> "nil",
         header |-> NoHeader, opts |-> NoOpts,
         row |-> NoRow, preview |-> FALSE, ctx |-> NoCtx, effects |-> <<>>,
         object |-> NoObject, thumb |-> "nil", offset |-> 0]

\* The frame of a goroutine whose call of method op on id returned.
Done(op, id) == [Idle EXCEPT !.last = op, !.id = id]

Running == fault = "none"

\* ------------------------------------------------------------------ RWMutex
\* A Lock that waits for the writer only: readers are not excluded.
LockIgnoringReaders(t) == writer = 0

\* sync.RWMutex: Lock waits until nobody holds the mutex, RLock until no
\* writer holds it.
CanLock(t) == writer = 0 /\ readers = {}
CanRLock(t) == writer = 0

\* A return that leaves the read lock held.
RUnlockForgotten(t) == readers

\* The readers once t's deferred v.RUnlock() ran.
RUnlock(t) == readers \ {t}

\* ------------------------------------------------------------------ helpers
Pc(t) == th[t].pc

\* Goroutines that have read the entry of id inside GetNext and not yet
\* stored the cursor.
InGetNextWindow(id) == {u \in Threads : th[u].id = id /\ th[u].pc \in {"gn_next", "gn_write"}}

\* GetNext calls on id that were issued and have not returned.
InGetNext(id) ==
    {u \in Threads : th[u].id = id /\ th[u].pc \in {"gn_rlock", "gn_vol", "gn_next", "gn_write"}}

\* th after goroutine t stored into the entry of id: every GetNext that is
\* inside its read-to-store window on id is marked.
MarkStale(f, ids) ==
    [u \in Threads |->
        IF f[u].id \in ids /\ f[u].pc \in {"gn_next", "gn_write"}
        THEN [f[u] EXCEPT !.stale = TRUE] ELSE f[u]]

ResetServed(ids) == [i \in VolumeIds |-> IF i \in ids THEN 0 ELSE served[i]]

\* ------------------------------------------------------------------ VolumeCache.Add
CallAdd(t, id, urls) ==
    /\ Running /\ Pc(t) = "idle"
    /\ th' = [th EXCEPT ![t] = [Idle EXCEPT !.pc = "add_lock", !.caller = "api",
                                             !.id = id, !.urls = urls]]
    /\ UNCHANGED <<volumeCache, next, writer, readers, fault, served, calls, returned, directory>>

\* v.Lock()
AddLock(t) ==
    /\ Running /\ Pc(t) = "add_lock" /\ CanLock(t)
    /\ writer' = t
    /\ th' = [th EXCEPT ![t].pc = "add_vol"]
    /\ UNCHANGED <<volumeCache, next, readers, fault, served, calls, returned, directory>>

\* v.volumeCache[id] = urls
AddStoreVol(t) ==
    /\ Running /\ Pc(t) = "add_vol"
    /\ volumeCache' = MapPut(volumeCache, th[t].id, th[t].urls)
    /\ th' = [MarkStale(th, {th[t].id}) EXCEPT
                 ![t].pc = "add_next",
                 ![t].over = MapHas(volumeCache, th[t].id) /\ MapGetInt(next, th[t].id) > 0]
    /\ UNCHANGED <<next, writer, readers, fault, served, calls, returned, directory>>

\* An Add that leaves the cursor of id where it was.
AddKeepsCursor(id) == IF id \in DOMAIN next THEN next[id] ELSE 0

\* What Add stores in the cursor map.
AddCursor(id) == 0

\* The goroutine's frame once Add returned: to the caller of the API, or
\* back into lookupVolume, which calls GetNext next.
AfterAdd(f) ==
    IF f.caller = "lv"
    THEN [f EXCEPT !.pc = "gn_rlock", !.caller = "lv2", !.urls = <<>>, !.over = FALSE]
    ELSE [Done("Add", f.id) EXCEPT !.over = f.over]

\* v.next[id] = 0, then the deferred v.Unlock()
AddStoreNext(t) ==
    /\ Running /\ Pc(t) = "add_next"
    /\ next' = MapPut(next, th[t].id, AddCursor(th[t].id))
    /\ writer' = 0
    /\ served' = ResetServed({th[t].id})
    /\ th' = [MarkStale(th, {th[t].id}) EXCEPT ![t] = AfterAdd(th[t])]
    /\ UNCHANGED <<volumeCache, readers, fault, calls, returned, directory>>

\* ------------------------------------------------------------------ VolumeCache.Get
CallGet(t, id) ==
    /\ Running /\ Pc(t) = "idle"
    /\ th' = [th EXCEPT ![t] = [Idle EXCEPT !.pc = "get_rlock", !.caller = "api", !.id = id]]
    /\ UNCHANGED <<volumeCache, next, writer, readers, fault, served, calls, returned, directory>>

\* v.RLock()
GetRLock(t) ==
    /\ Running /\ Pc(t) = "get_rlock" /\ CanRLock(t)
    /\ readers' = readers \cup {t}
    /\ th' = [th EXCEPT ![t].pc = "get_read"]
    /\ UNCHANGED <<volumeCache, next, writer, fault, served, calls, returned, directory>>

\* vol, _ := v.volumeCache[id]; return vol; deferred v.RUnlock()
GetRead(t) ==
    /\ Running /\ Pc(t) = "get_read"
    /\ readers' = RUnlock(t)
    /\ th' = [th EXCEPT ![t] = [Done("Get", th[t].id) EXCEPT !.got = MapGetSlice(volumeCache, th[t].id)]]
    /\ UNCHANGED <<volumeCache, next, writer, fault, served, calls, returned, directory>>

\* ------------------------------------------------------------------ lookupVolume returns
\* The location URLs as text: a is "h:1", b is "http://h", c is
\* "https://h/", d is "h/"; the empty string is the empty text.
UrlText(u) ==
    CASE u = "a" -> <<"h", ":", "1">>
      [] u = "b" -> <<"h", "t", "t", "p", ":", "/", "/", "h">>
      [] u = "c" -> <<"h", "t", "t", "p", "s", ":", "/", "/", "h", "/">>
      [] u = "d" -> <<"h", "/">>
      [] OTHER -> <<>>

\* The frame of a goroutine whose lookupVolume call returned val: to the
\* caller of lookupVolume, or back into Get (volumeURL := s.lookupVolume(...)).
ResolveDone(f, val) ==
    IF f.outer = "get"
    THEN [Idle EXCEPT !.pc = "get_resolved", !.outer = "get", !.id = f.id, !.fid = f.fid,
                      !.query = f.query, !.volumeURL = UrlText(val), !.nlook = f.nlook,
                      !.prevURL = f.prevURL, !.cause = f.cause,
                      !.prevCause = f.prevCause, !.prevResult = f.prevResult,
                      !.row = f.row, !.preview = f.preview, !.ctx = f.ctx,
                      !.effects = f.effects]
    ELSE [Done("Resolve", f.id) EXCEPT !.ret = val, !.nlook = f.nlook, !.ok = f.ok,
                                       !.cold = f.cold, !.after = f.after,
                                       !.blocked = f.blocked]

\* ------------------------------------------------------------------ VolumeCache.GetNext
CallGetNext(t, id) ==
    /\ Running /\ Pc(t) = "idle"
    /\ served[id] + Cardinality(InGetNext(id)) < MaxCalls
    /\ th' = [th EXCEPT ![t] = [Idle EXCEPT !.pc = "gn_rlock", !.caller = "api", !.id = id]]
    /\ UNCHANGED <<volumeCache, next, writer, readers, fault, served, calls, returned, directory>>

\* One GetNext call of a load-test worker on volume 1.
WorkerGetNext(t) ==
    /\ Running /\ Pc(t) = "idle"
    /\ calls[t] < CallsPerThread
    /\ calls' = [calls EXCEPT ![t] = @ + 1]
    /\ th' = [th EXCEPT ![t] = [Idle EXCEPT !.pc = "gn_rlock", !.caller = "load", !.id = 1]]
    /\ UNCHANGED <<volumeCache, next, writer, readers, fault, served, returned, directory>>

\* v.RLock()
GnRLock(t) ==
    /\ Running /\ Pc(t) = "gn_rlock" /\ CanRLock(t)
    /\ readers' = readers \cup {t}
    /\ th' = [th EXCEPT ![t].pc = "gn_vol"]
    /\ UNCHANGED <<volumeCache, next, writer, fault, served, calls, returned, directory>>

\* The goroutine's frame once GetNext returned val: to the caller of the
\* API, or back into lookupVolume (lv1: the call of line 134, a miss goes on
\* to the master; lv2: the call of line 172, whose result is returned).
AfterGetNext(f, val) ==
    IF f.caller = "lv1" /\ val = ""
    THEN [f EXCEPT !.pc = "lv_lookup", !.caller = "lv", !.vol = <<>>, !.n = 0, !.stale = FALSE]
    ELSE IF f.caller \in {"lv1", "lv2"}
    THEN ResolveDone(f, val)
    ELSE [Done("GetNext", f.id) EXCEPT !.ret = val, !.stale = f.stale]
\* A test that forgets the empty list: if !ok
MissesOnlyUnknown(ok, volLen) == ~ok

\* if !ok || volLen == 0
GetNextMisses(ok, volLen) == ~ok \/ volLen = 0

\* vol, ok := v.volumeCache[id]; volLen := len(vol);
\* if !ok || volLen == 0 { return "" } (with the deferred v.RUnlock())
GnReadVol(t) ==
    /\ Running /\ Pc(t) = "gn_vol"
    /\ LET id == th[t].id
           ok == MapHas(volumeCache, id)
           vol == MapGetSlice(volumeCache, id)
       IN  IF GetNextMisses(ok, Len(vol))
           THEN /\ readers' = RUnlock(t)
                /\ th' = [th EXCEPT ![t] = AfterGetNext(th[t], "")]
           ELSE /\ th' = [th EXCEPT ![t].pc = "gn_next", ![t].vol = vol]
                /\ UNCHANGED readers
    /\ UNCHANGED <<volumeCache, next, writer, fault, served, calls, returned, directory>>

\* A wrap that is off by one: if n > volLen { n = 0 }
WrapOffByOne(n, volLen) == IF n > volLen THEN 0 ELSE n

\* if n >= volLen { n = 0 }
Wrap(n, volLen) == IF n >= volLen THEN 0 ELSE n

\* n, _ := v.next[id]; if n >= volLen { n = 0 }
GnReadNext(t) ==
    /\ Running /\ Pc(t) = "gn_next"
    /\ th' = [th EXCEPT ![t].pc = "gn_write",
                        ![t].n = Wrap(MapGetInt(next, th[t].id), Len(th[t].vol))]
    /\ UNCHANGED <<volumeCache, next, writer, readers, fault, served, calls, returned, directory>>

\* A deferred store that does not advance: v.next[id] = n
AdvanceDropped(n) == n

\* The cursor the deferred func() stores: v.next[id] = n + 1
Advance(n) == n + 1

\* 0-based index i is inside slice s.
InRange(s, i) == 0 <= i /\ i < Len(s)

\* return vol[n], then the deferred calls in reverse order:
\* v.next[id] = n + 1 and v.RUnlock().  vol[n] outside the slice is the
\* runtime panic "index out of range"; the deferred calls still run.
GnReturn(t) ==
    /\ Running /\ Pc(t) = "gn_write"
    /\ LET id == th[t].id
           n == th[t].n
           vol == th[t].vol
       IN  /\ next' = MapPut(next, id, Advance(n))
           /\ readers' = RUnlock(t)
           /\ IF InRange(vol, n)
              THEN /\ served' = [served EXCEPT ![id] = @ + 1]
                   /\ returned' = IF th[t].caller = "load"
                                  THEN [returned EXCEPT ![vol[n + 1]] = @ + 1]
                                  ELSE returned
                   /\ th' = [th EXCEPT ![t] = AfterGetNext(th[t], vol[n + 1])]
                   /\ UNCHANGED fault
              ELSE /\ fault' = "index out of range"
                   /\ UNCHANGED <<served, returned, th>>
    /\ UNCHANGED <<volumeCache, writer, calls, directory>>

\* ------------------------------------------------------------------ VolumeCache.Remove
CallRemove(t, id) ==
    /\ Running /\ Pc(t) = "idle"
    /\ th' = [th EXCEPT ![t] = [Idle EXCEPT !.pc = "rm_lock", !.caller = "api", !.id = id]]
    /\ UNCHANGED <<volumeCache, next, writer, readers, fault, served, calls, returned, directory>>

\* v.Lock()
RemoveLock(t) ==
    /\ Running /\ Pc(t) = "rm_lock" /\ CanLock(t)
    /\ writer' = t
    /\ th' = [th EXCEPT ![t].pc = "rm_del"]
    /\ UNCHANGED <<volumeCache, next, readers, fault, served, calls, returned, directory>>

\* delete(v.volumeCache, id), then the deferred v.Unlock()
RemoveDelete(t) ==
    /\ Running /\ Pc(t) = "rm_del"
    /\ volumeCache' = MapDel(volumeCache, th[t].id)
    /\ writer' = 0
    /\ served' = ResetServed({th[t].id})
    /\ th' = [MarkStale(th, {th[t].id}) EXCEPT ![t] = Done("Remove", th[t].id)]
    /\ UNCHANGED <<next, readers, fault, calls, returned, directory>>

\* ------------------------------------------------------------------ VolumeCache.Empty
CallEmpty(t) ==
    /\ Running /\ Pc(t) = "idle"
    /\ th' = [th EXCEPT ![t] = [Idle EXCEPT !.pc = "em_lock", !.caller = "api"]]
    /\ UNCHANGED <<volumeCache, next, writer, readers, fault, served, calls, returned, directory>>

\* An Empty that leaves the map as it is.
ClearedNothing(m) == m

\* The fresh map Empty assigns: map[uint32][]string{}, map[uint32]int{}
Cleared(m) == EmptyMap

\* v.Lock()
EmptyLock(t) ==
    /\ Running /\ Pc(t) = "em_lock" /\ CanLock(t)
    /\ writer' = t
    /\ th' = [th EXCEPT ![t].pc = "em_vol"]
    /\ UNCHANGED <<volumeCache, next, readers, fault, served, calls, returned, directory>>

\* v.volumeCache = map[uint32][]string{}
EmptyStoreVol(t) ==
    /\ Running /\ Pc(t) = "em_vol"
    /\ volumeCache' = Cleared(volumeCache)
    /\ th' = [MarkStale(th, VolumeIds) EXCEPT
                 ![t].pc = "em_next",
                 ![t].before = [volumeCache |-> volumeCache, next |-> next]]
    /\ UNCHANGED <<next, writer, readers, fault, served, calls, returned, directory>>

\* v.next = map[uint32]int{}, then the deferred v.Unlock()
EmptyStoreNext(t) ==
    /\ Running /\ Pc(t) = "em_next"
    /\ next' = Cleared(next)
    /\ writer' = 0
    /\ served' = ResetServed(VolumeIds)
    /\ th' = [MarkStale(th, VolumeIds) EXCEPT
                 ![t] = [Done("Empty", 0) EXCEPT !.before = th[t].before]]
    /\ UNCHANGED <<volumeCache, readers, fault, calls, returned, directory>>

\* ------------------------------------------------------------------ strconv.ParseUint
\* Strings handed to lookupVolume, as sequences of characters.
Digits == <<"0", "1", "2", "3", "4", "5", "6", "7", "8", "9">>
IsDigit(c) == \E d \in 1..10 : Digits[d] = c
DigitVal(c) == (CHOOSE d \in 1..10 : Digits[d] = c) - 1

\* Values up to 2^32 - 1 are kept as two 16-bit halves, hi * 2^16 + lo.
Half == 65536

\* acc * 10 + d that wraps around at 2^32 and reports no overflow.
MulAddWrapping(acc, d) ==
    [hi |-> (acc.hi * 10 + ((acc.lo * 10 + d) \div Half)) % Half,
     lo |-> (acc.lo * 10 + d) % Half, over |-> FALSE]

\* acc * 10 + d on the halves; over says that the result passes 2^32 - 1.
MulAdd(acc, d) ==
    LET low == acc.lo * 10 + d
        high == acc.hi * 10 + (low \div Half)
    IN  [hi |-> high % Half, lo |-> low % Half, over |-> high >= Half]

\* strconv.ParseUint(s, 10, 32): "syntax" for the empty string and for any
\* character that is no decimal digit (a sign included), "range" when the
\* value passes 2^32 - 1, else the value.
RECURSIVE ParseDigits(_, _, _)
ParseDigits(s, i, acc) ==
    IF i > Len(s) THEN [err |-> "none", hi |-> acc.hi, lo |-> acc.lo]
    ELSE IF ~IsDigit(s[i]) THEN [err |-> "syntax", hi |-> 0, lo |-> 0]
    ELSE IF MulAdd(acc, DigitVal(s[i])).over
         THEN [err |-> "range", hi |-> Half - 1, lo |-> Half - 1]
    ELSE ParseDigits(s, i + 1, MulAdd(acc, DigitVal(s[i])))

ParseUint(s) ==
    IF Len(s) = 0 THEN [err |-> "syntax", hi |-> 0, lo |-> 0]
    ELSE ParseDigits(s, 1, [hi |-> 0, lo |-> 0])

\* uint32(volumeUint64) as the key of the maps; the ids of the model are
\* below 2^16.
Uint32(p) == p.hi * Half + p.lo

\* The volume id strings callers pass: "1", "2", "01", "abc", "-1", "",
\* "4294967296" and "4294967297" (2^32 and 2^32 + 1).
VolumeIdStrings ==
    { <<"1">>, <<"2">>, <<"0", "1">>, <<"a", "b", "c">>, <<"-", "1">>, <<>>,
      <<"4", "2", "9", "4", "9", "6", "7", "2", "9", "6">>,
      <<"4", "2", "9", "4", "9", "6", "7", "2", "9", "7">> }

\* ------------------------------------------------------------------ the master
\* Location objects of the master's JSON reply: url is the internal address,
\* publicUrl the public one; the last object carries no publicUrl member.
InternalUrls == <<"u1", "u2", "u3", "u4">>
LocationObjs ==
    {[url |-> InternalUrls[i], publicUrl |-> AllUrls[i]] : i \in 1..MaxLen}
        \cup {[url |-> InternalUrls[MaxLen + 1]]}

\* The sequences over S of length 0..n.
RECURSIVE SeqsUpTo(_, _)
SeqsUpTo(S, n) ==
    IF n = 0 THEN {<<>>}
    ELSE LET shorter == SeqsUpTo(S, n - 1)
         IN  shorter \cup {Append(q, x) : q \in {r \in shorter : Len(r) = n - 1}, x \in S}

LocationLists == SeqsUpTo(LocationObjs, MaxLen)

\* Reply bodies: text that is no JSON, a JSON object without a locations
\* member, and JSON objects with a locations array.
NotJson == [text |-> "garbage"]
Bodies ==
    {NotJson} \cup {[volumeId |-> "1"]}
        \cup {[volumeId |-> "1", locations |-> l] : l \in LocationLists}

\* What fasthttp.GetTimeout hands back: an error (refused, timed out), or a
\* status code with a body.
MasterReplies ==
    {[err |-> TRUE, status |-> 0, body |-> NotJson]}
        \cup {[err |-> FALSE, status |-> 404, body |-> NotJson]}
        \cup {[err |-> FALSE, status |-> 200, body |-> b] : b \in Bodies}

StatusOK == 200

\* A string member of a JSON object as encoding/json stores it in a string
\* field: the zero value "" when the object has no such member.
JsonString(obj, member) == IF member \in DOMAIN obj THEN obj[member] ELSE ""

\* json.Unmarshal(body, &res) into lookupResponse.
Unmarshal(body) ==
    IF "text" \in DOMAIN body THEN [err |-> TRUE, Locations |-> <<>>]
    ELSE [err |-> FALSE,
          Locations |->
              IF "locations" \in DOMAIN body
              THEN [i \in 1..Len(body.locations) |->
                       [URL |-> JsonString(body.locations[i], "url"),
                        PublicURL |-> JsonString(body.locations[i], "publicUrl")]]
              ELSE <<>>]

\* A conversion that takes the url field of each location.
urlsToSlice(res) == [i \in 1..Len(res.Locations) |-> res.Locations[i].URL]

\* lookupResponse.publicURLsToSlice
publicURLsToSlice(res) == [i \in 1..Len(res.Locations) |-> res.Locations[i].PublicURL]

\* ------------------------------------------------------------------ Seaweed.lookupVolume
\* The URL that is due for id in round-robin order: served[id] calls were
\* served from the entry, so element served[id] mod N (0-based) is next.
Due(id) ==
    IF MapHas(volumeCache, id) /\ Len(volumeCache[id]) > 0
    THEN volumeCache[id][(served[id] % Len(volumeCache[id])) + 1]
    ELSE "?"

\* strconv.ParseUint(volumeID, 10, 32); on an error return "", else call
\* s.VolumeCache.GetNext(volumeUint32).
\* The volume ids followed: a string that parses names one of VolumeIds
\* and fewer than MaxCalls calls were served from its entry.
LookupAllowed(volumeID) ==
    LET p == ParseUint(volumeID)
    IN  p.err = "none" =>
            /\ p.hi = 0 /\ Uint32(p) \in VolumeIds
            /\ served[Uint32(p)] + Cardinality(InGetNext(Uint32(p))) < MaxCalls

\* The frame of goroutine t entering lookupVolume(volumeID) from frame base.
LookupFrame(base, t, volumeID) ==
    LET p == ParseUint(volumeID)
    IN  IF p.err # "none"
        THEN ResolveDone([base EXCEPT !.cause = "BadIdentifier"], "")
        ELSE [base EXCEPT !.pc = "gn_rlock", !.caller = "lv1", !.id = Uint32(p),
                          !.cold = ~MapHas(volumeCache, Uint32(p)),
                          !.exp = Due(Uint32(p)),
                          !.before = [volumeCache |-> volumeCache, next |-> next],
                          !.blocked = {w \in Threads \ {t} : Pc(w) = "lv_wait"},
                          !.after = /\ th[t].last = "Resolve"
                                    /\ th[t].id = Uint32(p)
                                    /\ th[t].ok /\ th[t].ret # ""]

CallResolve(t, volumeID) ==
    /\ Running /\ Pc(t) = "idle"
    /\ LookupAllowed(volumeID)
    /\ th' = [th EXCEPT ![t] = LookupFrame(Idle, t, volumeID)]
    /\ UNCHANGED <<volumeCache, next, writer, readers, fault, served, calls, returned, directory>>

\* The miss: fasthttp.GetTimeout(nil, lookupURL, s.LookupTimeout) sends the
\* request to the master.
LvLookup(t) ==
    /\ Running /\ Pc(t) = "lv_lookup"
    /\ th' = [th EXCEPT ![t].pc = "lv_wait", ![t].nlook = @ + 1]
    /\ UNCHANGED <<volumeCache, next, writer, readers, fault, served, calls, returned, directory>>

\* The reply is one lookupVolume caches: no error, status 200, a body that
\* parses, at least one location.
Accepts(reply) ==
    /\ ~reply.err
    /\ reply.status = StatusOK
    /\ ~Unmarshal(reply.body).err
    /\ Len(Unmarshal(reply.body).Locations) # 0

\* The failure a reply of the master ends lookupVolume with: the request
\* failed or the status is not 200 (lines 144-157), or the body did not parse
\* or lists no location (lines 160-170); "none" for a reply that is cached.
LookupFailure(reply) ==
    IF reply.err \/ reply.status # StatusOK THEN "LookupUnavailable"
    ELSE IF ~Accepts(reply) THEN "LookupMalformed"
    ELSE "none"

\* th once goroutine t stopped waiting for the master.
Unblock(f, t) == [u \in Threads |-> [f[u] EXCEPT !.blocked = @ \ {t}]]

\* A failed lookup that is sent again.
LookupRetried(f) == [f EXCEPT !.pc = "lv_lookup"]

\* return "" after the request to the master (lines 149, 156, 165, 169).
LookupFailed(f) == ResolveDone(f, "")

\* GetTimeout returns.  err != nil, statusCode != 200, an Unmarshal error and
\* len(res.Locations) == 0 each return ""; otherwise lookupVolume calls
\* s.VolumeCache.Add(volumeUint32, res.publicURLsToSlice()).
LvReply(t, reply) ==
    /\ Running /\ Pc(t) = "lv_wait"
    /\ IF Accepts(reply)
       THEN th' = [Unblock(th, t) EXCEPT ![t].pc = "add_lock", ![t].ok = TRUE,
                                         ![t].locs = reply.body.locations,
                                         ![t].urls = publicURLsToSlice(Unmarshal(reply.body))]
       ELSE th' = [Unblock(th, t) EXCEPT
                      ![t] = LookupFailed([th[t] EXCEPT !.cause = LookupFailure(reply)])]
    /\ UNCHANGED <<volumeCache, next, writer, readers, fault, served, calls, returned, directory>>

\* ------------------------------------------------------------------ Seaweed.Get
\* strings.Split(fid, ",")[0]: the text before the first comma, all of fid
\* when it holds none.
RECURSIVE SplitFirst(_)
SplitFirst(fid) ==
    IF Len(fid) = 0 \/ Head(fid) = "," THEN <<>>
    ELSE <<Head(fid)>> \o SplitFirst(Tail(fid))

\* strings.HasPrefix and strings.HasSuffix.
HasPrefix(str, prefix) ==
    Len(str) >= Len(prefix) /\ SubSeq(str, 1, Len(prefix)) = prefix
HasSuffix(str, suffix) ==
    Len(str) >= Len(suffix) /\ SubSeq(str, Len(str) - Len(suffix) + 1, Len(str)) = suffix

Http == <<"h", "t", "t", "p", ":", "/", "/">>
Https == <<"h", "t", "t", "p", "s", ":", "/", "/">>

\* requestURL as Get builds it from volumeURL, fid and query.
RequestURL(volumeURL, fid, query) ==
    LET schemed == IF ~HasPrefix(volumeURL, Http) /\ ~HasPrefix(volumeURL, Https)
                   THEN Http \o volumeURL ELSE volumeURL
        slashed == IF ~HasSuffix(schemed, <<"/">>) THEN schemed \o <<"/">> ELSE schemed
        withFid == slashed \o fid
    IN  IF Len(query) # 0 THEN withFid \o <<"?">> \o query ELSE withFid

StatusInternalServerError == 500
StatusPartialContent == 206

\* The file ids and query strings callers pass: "1,k", "2,k,x", "abc,k",
\* "1"; "" and "q".
Fids ==
    { <<"1", ",", "k">>, <<"2", ",", "k", ",", "x">>, <<"a", "b", "c", ",", "k">>, <<"1">> }
Queries == { <<>>, <<"q">> }

\* What fasthttp.Do hands back: an error (refused, timed out), or a response
\* with a status code, headers and a body.
ReplicaStatuses == {200, 206, 304, 404, 500}
ReplicaReplies ==
    {[err |-> TRUE, status |-> 0, headers |-> "nil", body |-> <<>>]}
        \cup {[err |-> FALSE, status |-> c, headers |-> "resHeaders", body |-> <<"data">>] :
                 c \in ReplicaStatuses}

\* The frame of a goroutine whose Get call returned.
GetDone(f, statusCode, headers, err, written) ==
    [Done("GetFile", f.id) EXCEPT
        !.fid = f.fid, !.query = f.query, !.volumeURL = f.volumeURL,
        !.requestURL = f.requestURL, !.nreq = f.nreq, !.nlook = f.nlook,
        !.cause = f.cause, !.prevCause = f.prevCause, !.prevResult = f.prevResult,
        !.result = [statusCode |-> statusCode, headers |-> headers, err |-> err,
                    written |-> written],
        !.pc = IF f.row = NoRow THEN "idle" ELSE "rh_got",
        !.row = f.row, !.preview = f.preview, !.ctx = f.ctx, !.effects = f.effects]

\* volumeURL := s.lookupVolume(strings.Split(fid, ",")[0])
CallGetFile(t, fid, query) ==
    /\ Running /\ Pc(t) = "idle"
    /\ LookupAllowed(SplitFirst(fid))
    /\ th' = [th EXCEPT ![t] =
                LookupFrame([Idle EXCEPT !.outer = "get", !.fid = fid, !.query = query,
                                         !.prevURL = IF /\ th[t].last = "GetFile" /\ th[t].nreq = 1
                                                        /\ SplitFirst(th[t].fid) = SplitFirst(fid)
                                                     THEN th[t].volumeURL ELSE <<>>,
                                         !.prevCause = IF th[t].last = "GetFile"
                                                       THEN th[t].cause ELSE "none",
                                         !.prevResult = IF /\ th[t].last = "GetFile"
                                                           /\ th[t].cause # "none"
                                                        THEN th[t].result ELSE NoResult],
                            t, SplitFirst(fid))]
    /\ UNCHANGED <<volumeCache, next, writer, readers, fault, served, calls, returned, directory>>

\* A Get that goes on without a volume URL.
ResolutionNeverFails(volumeURL) == FALSE

\* if volumeURL == ""
ResolutionFailed(volumeURL) == Len(volumeURL) = 0

\* if volumeURL == "" { return 500, nil, errors.New(...) }; otherwise build
\* requestURL, set up the request and send it: fasthttp.Do(req, res).
GetRequest(t) ==
    /\ Running /\ Pc(t) = "get_resolved"
    /\ IF ResolutionFailed(th[t].volumeURL)
       THEN th' = [th EXCEPT ![t] =
                     GetDone(th[t], StatusInternalServerError, "nil", TRUE, <<>>)]
       ELSE th' = [th EXCEPT ![t].pc = "do_wait",
                             ![t].requestURL = RequestURL(th[t].volumeURL, th[t].fid, th[t].query),
                             ![t].nreq = @ + 1]
    /\ UNCHANGED <<volumeCache, next, writer, readers, fault, served, calls, returned, directory>>

\* A test that leaves out partial content: if res.StatusCode() == 200
WritesBodyOnlyOK(statusCode) == statusCode = StatusOK

\* A failed request reported as an internal error: return 500, nil, err
DoFailedAsInternalError(f) == GetDone(f, StatusInternalServerError, "nil", TRUE, <<>>)

\* if err != nil { return 0, nil, err }
DoFailed(f) == GetDone(f, 0, "nil", TRUE, <<>>)

\* A failed write reported like a failed request: return 0, nil, err
WriteFailedAsNoStatus(f) == GetDone(f, 0, "nil", TRUE, <<>>)

\* if err := res.BodyWriteTo(writer); err != nil { return 500, nil, err }
WriteFailed(f) == GetDone(f, StatusInternalServerError, "nil", TRUE, <<>>)

\* The status codes whose body Get writes to the writer.
WritesBody(statusCode) == statusCode = StatusOK \/ statusCode = StatusPartialContent

\* fasthttp.Do returns.  err != nil returns 0, nil, err.  On 200 and 206 the
\* body goes to the writer with res.BodyWriteTo(writer), whose failure
\* (writeOk false) returns 500, nil, err.  Otherwise Get returns the status
\* code, the response headers and a nil error.
DoReply(t, reply, writeOk) ==
    /\ Running /\ Pc(t) = "do_wait"
    /\ th' = [th EXCEPT ![t] =
                IF reply.err
                THEN DoFailed(th[t])
                ELSE IF WritesBody(reply.status) /\ ~writeOk
                THEN WriteFailed(th[t])
                ELSE GetDone(th[t], reply.status, reply.headers, FALSE,
                             IF WritesBody(reply.status) THEN reply.body ELSE <<>>)]
    /\ UNCHANGED <<volumeCache, next, writer, readers, fault, served, calls, returned, directory>>

\* ------------------------------------------------------------------ hostname whitelist
\* strings.Split(str, sep) for a one-character separator.
RECURSIVE Split(_, _)
Split(str, sep) ==
    IF \A i \in 1..Len(str) : str[i] # sep THEN <<str>>
    ELSE LET i == CHOOSE j \in 1..Len(str) :
                      str[j] = sep /\ \A k \in 1..(j - 1) : str[k] # sep
         IN  <<SubSeq(str, 1, i - 1)>> \o Split(SubSeq(str, i + 1, Len(str)), sep)

\* strings.Join(parts, sep)
RECURSIVE Join(_, _)
Join(parts, sep) ==
    IF Len(parts) = 0 THEN <<>>
    ELSE IF Len(parts) = 1 THEN parts[1]
    ELSE parts[1] \o <<sep>> \o Join(Tail(parts), sep)

Dot == "."
Star == <<"*">>
Www == <<"w", "w", "w">>

\* &treeNode{Value: v}
NewNode(v) == [Leaf |-> FALSE, Value |-> v, FullValue |-> <<>>, SubNodes |-> <<>>]

\* treeNode.findOrCreateSubNode, the search: the index of the first sub-node
\* that is no leaf and carries v, 0 when there is none.
FindSubNode(t, v) ==
    LET hits == {j \in 1..Len(t.SubNodes) : ~t.SubNodes[j].Leaf /\ t.SubNodes[j].Value = v}
    IN  IF hits = {} THEN 0 ELSE CHOOSE j \in hits : \A k \in hits : j <= k

\* The inner loop of parseWhitelistSlice for the entry d, from node t on,
\* split being the labels of d still to place: find or create the sub-node
\* of the first label; the node of the last label becomes a leaf with
\* FullValue d.
RECURSIVE InsertEntry(_, _, _)
InsertEntry(t, split, d) ==
    LET found == FindSubNode(t, Head(split))
        subs == IF found = 0 THEN Append(t.SubNodes, NewNode(Head(split))) ELSE t.SubNodes
        j == IF found = 0 THEN Len(subs) ELSE found
        node == IF Len(split) = 1
                THEN [subs[j] EXCEPT !.Leaf = TRUE, !.FullValue = d]
                ELSE InsertEntry(subs[j], Tail(split), d)
    IN  [t EXCEPT !.SubNodes = [subs EXCEPT ![j] = node]]

\* parseWhitelistSlice: the entries are placed in the order of the list.
RECURSIVE InsertAll(_, _)
InsertAll(tree, entries) ==
    IF Len(entries) = 0 THEN tree
    ELSE InsertAll(InsertEntry(tree, Split(Head(entries), Dot), Head(entries)), Tail(entries))

parseWhitelistSlice(hostnameWhitelist) == InsertAll(NewNode(<<>>), hostnameWhitelist)

\* treeNode.getMatch; MatchFrom is its loop over the sub-nodes from index j.
RECURSIVE getMatch(_, _)
RECURSIVE MatchFrom(_, _, _)
getMatch(t, str) ==
    IF t.Leaf \/ Len(t.SubNodes) = 0 \/ Len(str) = 0 THEN <<>>
    ELSE MatchFrom(t, str, 1)

MatchFrom(t, str, j) ==
    IF j > Len(t.SubNodes) THEN <<>>
    ELSE LET node == t.SubNodes[j]
         IN  IF node.Value = Star \/ node.Value = str[1]
             THEN IF node.Leaf THEN node.FullValue
                  ELSE LET match == getMatch(node, Tail(str))
                       IN  IF match # <<>> THEN match ELSE MatchFrom(t, str, j + 1)
             ELSE MatchFrom(t, str, j + 1)

\* if hostSplit[0] == "www" { hostSplit = hostSplit[1:] }
StripWww(hostSplit) == IF hostSplit[1] = Www THEN Tail(hostSplit) ELSE hostSplit

\* Collector.MatchHostname; the tree is the one New built from the list.
MatchHostname(c, hostname) ==
    IF c.enableHostnameWhitelist
    THEN LET hostSplit == StripWww(Split(hostname, Dot))
             match == getMatch(parseWhitelistSlice(c.hostnameWhitelist), hostSplit)
         IN  IF match # <<>>
             THEN [hostStr |-> Join(IF HasPrefix(match, Star \o <<Dot>>)
                                    THEN [hostSplit EXCEPT ![1] = Star]
                                    ELSE hostSplit, Dot),
                   isValid |-> TRUE]
             ELSE [hostStr |-> <<>>, isValid |-> FALSE]
    ELSE [hostStr |-> hostname, isValid |-> TRUE]

\* The labels of Host headers (www, example, com, net, org, test, evil),
\* the headers made of them and the whitelists configured: the one of the
\* README ("example.com", "*.example.net", "test.example.org"), and
\* "*.com", "example".
MaxLabels == 3
Labels == {Www, <<"x">>, <<"c">>, <<"n">>, <<"o">>, <<"t">>, <<"e">>}
Hostnames == {Join(l, Dot) : l \in SeqsUpTo(Labels, MaxLabels) \ {<<>>}}
Whitelists ==
    { << <<"x", ".", "c">>, <<"*", ".", "x", ".", "n">>, <<"t", ".", "x", ".", "o">> >>,
      << <<"*", ".", "c">>, <<"x">> >> }

\* The hostname recordMetrics puts into the record, "" when it returns
\* without a record: if !isValid { return }; record.Hostname = hostStr
Recorded(f) == IF f.isValid THEN f.hostStr ELSE <<>>

\* hostStr, isValid := collector.MatchHostname(string(hostBytes))
RecordMetrics(t) ==
    /\ Running /\ Pc(t) = "mh_call"
    /\ LET r == MatchHostname(th[t].collector, th[t].hostname)
       IN  th' = [th EXCEPT ![t].pc = "mh_done", ![t].hostStr = r.hostStr,
                            ![t].isValid = r.isValid]
    /\ UNCHANGED <<volumeCache, next, writer, readers, fault, served, calls, returned, directory>>

\* The next request carries the same Host header with "www." in front.
RequestWithWww(t) ==
    /\ Running /\ Pc(t) = "mh_done" /\ Len(th[t].prevHostname) = 0
    /\ th' = [th EXCEPT ![t] = [Idle EXCEPT !.pc = "mh_call",
                                            !.collector = th[t].collector,
                                            !.hostname = Www \o <<Dot>> \o th[t].hostname,
                                            !.prevHostname = th[t].hostname,
                                            !.prevRecorded = Recorded(th[t])]]
    /\ UNCHANGED <<volumeCache, next, writer, readers, fault, served, calls, returned, directory>>

\* ------------------------------------------------------------------ main
\* The goroutine that runs main; request handlers run on the others.
Main == MaxThreads

\* What fasthttp.GetTimeout hands to Ping: an error (refused, timed out
\* after s.LookupTimeout), or the status code of the master's answer.
PingStatuses == {200, 204, 404, 500, 503}
PingReplies ==
    {[err |-> TRUE, status |-> 0]} \cup {[err |-> FALSE, status |-> c] : c \in PingStatuses}

\* A Ping that accepts every answer of the master, whatever its status.
PingAnyStatus(reply) == IF reply.err THEN "request failed" ELSE "nil"

\* Seaweed.Ping: the error of GetTimeout, an error for a status code other
\* than 200, nil otherwise.
Ping(reply) == IF reply.err THEN "request failed" ELSE IF reply.status # StatusOK THEN "unexpected status" ELSE "nil"

\* seaweed = weed.New(seaweedMasterURI, time.Second*5); seaweed.Ping() sends
\* its request to <master>/cluster/status.
MainPing ==
    /\ Running /\ Pc(Main) = "main_start"
    /\ th' = [th EXCEPT ![Main].pc = "ping_wait"]
    /\ UNCHANGED <<volumeCache, next, writer, readers, fault, served, calls, returned, directory>>

\* GetTimeout returns and Ping with it: err = seaweed.Ping()
PingReturns(reply) ==
    /\ Running /\ Pc(Main) = "ping_wait"
    /\ th' = [th EXCEPT ![Main].pc = "main_pinged", ![Main].pingReply = reply,
                        ![Main].pingErr = Ping(reply)]
    /\ UNCHANGED <<volumeCache, next, writer, readers, fault, served, calls, returned, directory>>

\* if err != nil { log...Fatal("failed to ping SeaweedFS master") }: Fatal
\* logs and ends the process with os.Exit(1).
MainCheckPing ==
    /\ Running /\ Pc(Main) = "main_pinged"
    /\ th' = [th EXCEPT ![Main].pc = IF th[Main].pingErr # "nil" THEN "exited" ELSE "main_db"]
    /\ UNCHANGED <<volumeCache, next, writer, readers, fault, served, calls, returned, directory>>

\* if postgresURI == "" { log.Fatal(...) }; db, err = sql.Open(...);
\* if err != nil { log...Fatal(...) }
MainOpenDb(openOk) ==
    /\ Running /\ Pc(Main) = "main_db"
    /\ th' = [th EXCEPT ![Main].pc = IF th[Main].postgresURI = "" \/ ~openOk
                                     THEN "exited" ELSE "main_templates"]
    /\ UNCHANGED <<volumeCache, next, writer, readers, fault, served, calls, returned, directory>>

\* The two template.New(...).Parse(...) calls, each followed by Fatal on an
\* error.
MainTemplates(parseOk) ==
    /\ Running /\ Pc(Main) = "main_templates"
    /\ th' = [th EXCEPT ![Main].pc = IF parseOk THEN "main_listen" ELSE "exited"]
    /\ UNCHANGED <<volumeCache, next, writer, readers, fault, served, calls, returned, directory>>

\* server.ListenAndServe(listenAddr): the server listens and serves, or the
\* call returns an error and main ends with Fatal.
MainListen(listenOk) ==
    /\ Running /\ Pc(Main) = "main_listen"
    /\ th' = [th EXCEPT ![Main].pc = IF listenOk THEN "serving" ELSE "exited"]
    /\ UNCHANGED <<volumeCache, next, writer, readers, fault, served, calls, returned, directory>>

\* requestHandler on a request for a file object, once the server listens:
\* seaweed.Get(backend_file_id.String, "", ctx)
ServeRequest(t, fid) ==
    /\ Pc(Main) = "serving"
    /\ CallGetFile(t, fid, <<>>)

\* ------------------------------------------------------------------ thumbnailer.Transform
maxInputResolution == 10000
maxOutputResolution == 200

\* Widths and heights of the images decoded: every length up to
\* MaxDimension, lengths around twice the output resolution, and lengths at
\* and past the input limit.
MaxDimension == 205
Dimensions == (1..MaxDimension) \cup {399, 400, 401, 9999, 10000, 10001}

\* Lines 195-208: the output resolution.  scale is an integer quotient; a
\* quotient of 0 makes the division that follows the run-time panic
\* "integer divide by zero", reported here as fault.
OutputResolution(header) ==
    IF header.Width = header.Height
    THEN [fault |-> FALSE, width |-> maxOutputResolution, height |-> maxOutputResolution]
    ELSE IF header.Width > header.Height
    THEN LET scale == header.Width \div maxOutputResolution
         IN  IF scale = 0 THEN [fault |-> TRUE, width |-> 200, height |-> -1]
             ELSE [fault |-> FALSE, width |-> 200, height |-> header.Height \div scale]
    ELSE LET scale == header.Height \div maxOutputResolution
         IN  IF scale = 0 THEN [fault |-> TRUE, width |-> -1, height |-> 200]
             ELSE [fault |-> FALSE, width |-> header.Width \div scale, height |-> 200]

\* Lines 215-227: the options, with the image's own size and no resizing
\* when it already fits the output resolution.
ImageOptions(header, out) ==
    IF header.Width <= maxOutputResolution /\ header.Height <= maxOutputResolution
    THEN [Width |-> header.Width, Height |-> header.Height, ResizeMethod |-> "ImageOpsNoResize"]
    ELSE [Width |-> out.width, Height |-> out.height, ResizeMethod |-> "ImageOpsFit"]

\* Transform from the parsed header to the call of ops.Transform: the
\* input limit (return nil, InputTooLarge), the output resolution, the
\* options.
TransformSize(t) ==
    /\ Running /\ Pc(t) = "tf_call"
    /\ LET header == th[t].header
           out == OutputResolution(header)
       IN  IF header.Width > maxInputResolution \/ header.Height > maxInputResolution
           THEN /\ th' = [th EXCEPT ![t].pc = "tf_done", ![t].ret = "InputTooLarge"]
                /\ UNCHANGED fault
           ELSE IF out.fault
           THEN /\ fault' = "integer divide by zero"
                /\ UNCHANGED th
           ELSE /\ th' = [th EXCEPT ![t].pc = "tf_done", ![t].opts = ImageOptions(header, out)]
                /\ UNCHANGED fault
    /\ UNCHANGED <<volumeCache, next, writer, readers, served, calls, returned, directory>>

\* ------------------------------------------------------------------ requestHandler (SeaweedFS)
\* fasthttp.RequestCtx as the handler uses it: SetStatusCode and
\* SetContentType replace the value, fmt.Fprint(ctx, ...) appends to the body.
StatusNotFound == 404
NewCtx == [statusCode |-> StatusOK, contentType |-> "text/plain; charset=utf-8", body |-> <<>>]
SetStatusCode(c, code) == [c EXCEPT !.statusCode = code]
SetContentType(c, contentType) == [c EXCEPT !.contentType = contentType]
Fprint(c, text) == [c EXCEPT !.body = Append(@, text)]

\* ctx.SetStatusCode(500); ctx.SetContentType("text/plain; charset=utf8");
\* fmt.Fprint(ctx, "500 Internal Server Error")
internalServerError(c) ==
    Fprint(SetContentType(SetStatusCode(c, StatusInternalServerError),
                          "text/plain; charset=utf8"),
           "500 Internal Server Error")

\* The rows the SELECT scans: a file or a short_url, each column NULL or set.
Rows ==
    {[object_type |-> ty, backend_file_id |-> b, content_type |-> c, long_url |-> l] :
        ty \in {0, 1},
        b \in {NullFid, [Valid |-> TRUE, String |-> <<"1", ",", "k">>],
                        [Valid |-> TRUE, String |-> <<"a", "b", "c", ",", "k">>]},
        c \in {NullText, [Valid |-> TRUE, String |-> "image/png"]},
        l \in {NullText, [Valid |-> TRUE, String |-> "http://x"]}}

\* What redirectPreviewHTMLTemplate / redirectHTMLTemplate render for a URL.
Execute(preview, url) ==
    IF preview
    THEN (IF url = "" THEN "preview page for the empty URL" ELSE "preview page for http://x")
    ELSE (IF url = "" THEN "redirect page for the empty URL" ELSE "redirect page for http://x")

\* case 0, up to the call of seaweed.Get: the 500 for a NULL backend_file_id
\* is followed by no return; the content type is set and
\* seaweed.Get(backend_file_id.String, "", ctx) is called.
RequestFile(t) ==
    /\ Running /\ Pc(t) = "rh_switch"
    /\ th[t].row.object_type = 0
    /\ LET row == th[t].row
           null == ~row.backend_file_id.Valid
           c1 == IF null THEN internalServerError(th[t].ctx) ELSE th[t].ctx
           c2 == IF row.content_type.Valid
                 THEN SetContentType(c1, row.content_type.String)
                 ELSE SetContentType(c1, "application/octet-stream")
           fid == row.backend_file_id.String
       IN  /\ LookupAllowed(SplitFirst(fid))
           /\ th' = [th EXCEPT ![t] =
                       LookupFrame([th[t] EXCEPT !.outer = "get", !.fid = fid, !.query = <<>>,
                                                 !.ctx = c2,
                                                 !.effects = (IF null THEN <<"internalServerError">>
                                                              ELSE <<>>) \o <<"seaweed.Get">>],
                                   t, SplitFirst(fid))]
    /\ UNCHANGED <<volumeCache, next, writer, readers, fault, served, calls, returned, directory>>

\* case 0, after seaweed.Get returned: what Get wrote is in the body; an
\* error and a status other than 200 each write the 500.
RequestFileDone(t) ==
    /\ Running /\ Pc(t) = "rh_got"
    /\ LET result == th[t].result
           c0 == [th[t].ctx EXCEPT !.body = @ \o result.written]
           failed == result.err \/ result.statusCode # StatusOK
       IN  th' = [th EXCEPT ![t].pc = "rh_done",
                            ![t].ctx = IF failed THEN internalServerError(c0) ELSE c0,
                            ![t].effects = IF failed THEN Append(@, "internalServerError") ELSE @]
    /\ UNCHANGED <<volumeCache, next, writer, readers, fault, served, calls, returned, directory>>

\* case 1: the 500 for a NULL long_url is followed by no return; the template
\* is executed with long_url.String and its page, or the text of its failure,
\* is written.
RequestShortUrl(t, execOk) ==
    /\ Running /\ Pc(t) = "rh_switch"
    /\ th[t].row.object_type = 1
    /\ LET row == th[t].row
           null == ~row.long_url.Valid
           c1 == IF null THEN internalServerError(th[t].ctx) ELSE th[t].ctx
           c2 == IF execOk
                 THEN Fprint(SetContentType(c1, "text/html; charset=utf8"),
                             Execute(th[t].preview, row.long_url.String))
                 ELSE Fprint(SetContentType(c1, "text/plain; charset=utf8"),
                             "Failed to generate page")
       IN  th' = [th EXCEPT ![t].pc = "rh_done", ![t].ctx = c2,
                            ![t].effects = (IF null THEN <<"internalServerError">> ELSE <<>>)
                                               \o <<"Execute">>]
    /\ UNCHANGED <<volumeCache, next, writer, readers, fault, served, calls, returned, directory>>

\* ------------------------------------------------------------------ requestHandler (thumbnails)
\* The columns SelectObjectByBucketKey scans for a file object: content_type
\* NULL or a MIME type, md5_hash NULL (no bytes), 15 bytes or 16 bytes.
Md5Bytes == [i \in 1..16 |-> 0]
Columns ==
    {[contentType |-> c, destURL |-> NullText, objectType |-> 0, md5Hash |-> m] :
        c \in {NullText} \cup {[Valid |-> TRUE, String |-> mime] :
                                  mime \in {"image/png", "image/gif", "text/plain", ""}},
        m \in {<<>>, SubSeq(Md5Bytes, 1, 15), Md5Bytes}}

\* hex.EncodeToString of the 16 zero bytes.
EncodeToString(bytes) == "00000000000000000000000000000000"

\* Lines 28-52 of queries.go: a pointer field of the Object stays nil unless
\* its column is valid; MD5Hash is set for a hash of 16 bytes only.
SelectObjectByBucketKey(cols) ==
    [ObjectType |-> cols.objectType,
     ContentType |-> IF cols.contentType.Valid THEN cols.contentType.String ELSE "nil",
     DestURL |-> IF cols.destURL.Valid THEN cols.destURL.String ELSE "nil",
     MD5Hash |-> IF Len(cols.md5Hash) = 16 THEN EncodeToString(cols.md5Hash) ELSE "nil"]

thumbnailMIMETypes == {"image/gif", "image/jpeg", "image/png", "image/webp"}
AcceptedMIMEType(mime) == mime \in thumbnailMIMETypes

CannotGenerate == "404 Not Found: /key?thumbnail (cannot generate thumbnail)"

\* The thumbnail of the file, in the chunks io.Copy moves it in.
Thumbnail == <<"t1", "t2">>

\* A write of one chunk at offset off of a file; past the end (the file was
\* truncated meanwhile) the gap reads as zero bytes.
WriteAt(content, off, chunk) ==
    IF off < Len(content) THEN [content EXCEPT ![off + 1] = chunk]
    ELSE content \o [i \in 1..(off - Len(content)) |-> "00"] \o <<chunk>>

\* Lines 329-341: thumbnailKey := *object.MD5Hash and *object.ContentType
\* dereference the pointers with no test for nil; a type that is not accepted
\* or an empty key is answered with the 404.
ThumbnailCheck(t) ==
    /\ Running /\ Pc(t) = "tn_check"
    /\ LET object == th[t].object
       IN  IF object.MD5Hash = "nil" \/ object.ContentType = "nil"
           THEN /\ fault' = "nil pointer dereference"
                /\ UNCHANGED th
           ELSE /\ UNCHANGED fault
                /\ IF ~AcceptedMIMEType(object.ContentType) \/ object.MD5Hash = ""
                   THEN th' = [th EXCEPT ![t].pc = "tn_done",
                                         ![t].ctx = Fprint(SetContentType(
                                                        SetStatusCode(@, StatusNotFound),
                                                        "text/plain; charset=utf8"),
                                                        CannotGenerate)]
                   ELSE th' = [th EXCEPT ![t].pc = "tn_get"]
    /\ UNCHANGED <<volumeCache, next, writer, readers, served, calls, returned, directory>>

\* thumbnailCache.GetThumbnail(thumbnailKey), lines 346-350 and 372-380:
\* os.Open of the file of the key.  A file that does not exist is
\* NoCachedCopy, which the first call answers by generating the thumbnail
\* and the second with the 500; another error of os.Open is the 500.
GetThumbnail(t, openOk) ==
    /\ Running /\ Pc(t) \in {"tn_get", "tn_reget"}
    /\ LET key == th[t].object.MD5Hash
       IN  IF ~MapHas(directory, key)
           THEN IF Pc(t) = "tn_get"
                THEN th' = [th EXCEPT ![t].pc = "tn_source"]
                ELSE th' = [th EXCEPT ![t].pc = "tn_done",
                                      ![t].ctx = internalServerError(@)]
           ELSE IF ~openOk
           THEN th' = [th EXCEPT ![t].pc = "tn_done", ![t].ctx = internalServerError(@)]
           ELSE th' = [th EXCEPT ![t].pc = "tn_send", ![t].thumb = "open", ![t].offset = 0]
    /\ UNCHANGED <<volumeCache, next, writer, readers, fault, served, calls, returned, directory>>

\* What thumbnailer.Transform makes of the original file.
TransformOutcomes == {"ok", "InputTooLarge", "error"}

\* Lines 351-371 up to SetThumbnail: the original file is opened and
\* transformed; InputTooLarge is the 404, another failure the 500.
GenerateThumbnail(t, openOk, outcome) ==
    /\ Running /\ Pc(t) = "tn_source"
    /\ th' = [th EXCEPT ![t] =
                IF ~openOk \/ outcome = "error"
                THEN [@ EXCEPT !.pc = "tn_done", !.ctx = internalServerError(@)]
                ELSE IF outcome = "InputTooLarge"
                THEN [@ EXCEPT !.pc = "tn_done",
                               !.ctx = Fprint(SetContentType(SetStatusCode(@, StatusNotFound),
                                                             "text/plain; charset=utf8"),
                                              CannotGenerate)]
                ELSE [@ EXCEPT !.pc = "tn_create"]]
    /\ UNCHANGED <<volumeCache, next, writer, readers, fault, served, calls, returned, directory>>

\* SetThumbnail, lines 36-41: os.Create makes the file of the key or
\* truncates the one that is there.
SetThumbnailCreate(t, createOk) ==
    /\ Running /\ Pc(t) = "tn_create"
    /\ IF createOk
       THEN /\ directory' = MapPut(directory, th[t].object.MD5Hash, <<>>)
            /\ th' = [th EXCEPT ![t].pc = "tn_write", ![t].offset = 0]
       ELSE /\ th' = [th EXCEPT ![t].pc = "tn_done", ![t].ctx = internalServerError(@)]
            /\ UNCHANGED directory
    /\ UNCHANGED <<volumeCache, next, writer, readers, fault, served, calls, returned>>

\* SetThumbnail, lines 42-43: io.Copy(file, data) writes the next chunk at
\* the offset of this goroutine's descriptor; after the last chunk the file
\* is closed and the handler goes on to the second GetThumbnail.
SetThumbnailCopy(t) ==
    /\ Running /\ Pc(t) = "tn_write"
    /\ LET key == th[t].object.MD5Hash
           off == th[t].offset
       IN  /\ directory' = MapPut(directory, key,
                                  WriteAt(directory[key], off, Thumbnail[off + 1]))
           /\ th' = IF off + 1 = Len(Thumbnail)
                    THEN [th EXCEPT ![t].pc = "tn_reget", ![t].offset = 0]
                    ELSE [th EXCEPT ![t].offset = off + 1]
    /\ UNCHANGED <<volumeCache, next, writer, readers, fault, served, calls, returned>>

\* Lines 413-422: status 200, image/jpeg, and io.Copy(ctx, thumb): each read
\* returns the chunk at the offset of the descriptor, or the end of the file
\* as it is at that moment, which ends the response.
SendThumbnail(t) ==
    /\ Running /\ Pc(t) = "tn_send"
    /\ LET file == directory[th[t].object.MD5Hash]
           off == th[t].offset
           c == SetContentType(SetStatusCode(th[t].ctx, StatusOK), "image/jpeg")
       IN  th' = IF off < Len(file)
                 THEN [th EXCEPT ![t].ctx = Fprint(c, file[off + 1]), ![t].offset = off + 1]
                 ELSE [th EXCEPT ![t].ctx = c, ![t].pc = "tn_done", ![t].thumb = "closed"]
    /\ UNCHANGED <<volumeCache, next, writer, readers, fault, served, calls, returned, directory>>

\* ------------------------------------------------------------------ Go runtime
\* The maps a goroutine's next statement reads and writes.
MapsRead(p) ==
    CASE p \in {"gn_vol", "get_read"} -> {"volumeCache"}
      [] p = "gn_next" -> {"next"}
      [] OTHER -> {}

MapsWritten(p) ==
    CASE p \in {"add_vol", "rm_del", "em_vol"} -> {"volumeCache"}
      [] p \in {"add_next", "gn_write", "em_next"} -> {"next"}
      [] OTHER -> {}

\* t's next statement writes a map that u's next statement reads or writes:
\* the two accesses are not ordered by the mutex.
Racing(t, u) ==
    /\ t # u
    /\ MapsWritten(Pc(t)) \cap (MapsRead(Pc(u)) \cup MapsWritten(Pc(u))) # {}

\* Unsynchronised accesses to a Go map are a data race.  The build either
\* carries both out in some order (the interleavings of the statements
\* above), or the runtime detects the overlap and ends the process with
\* "fatal error: concurrent map writes" / "concurrent map read and map write".
ConcurrentMapFault ==
    /\ Running
    /\ \E t, u \in Threads : Racing(t, u)
    /\ fault' = "concurrent map access"
    /\ UNCHANGED <<volumeCache, next, writer, readers, th, served, calls, returned, directory>>

\* ------------------------------------------------------------------ specifications
\* weed.New: both maps empty, the mutex free.
Init ==
    /\ volumeCache = EmptyMap
    /\ next = EmptyMap
    /\ writer = 0
    /\ readers = {}
    /\ th = [t \in Threads |-> Idle]
    /\ fault = "none"
    /\ served = [i \in VolumeIds |-> 0]
    /\ calls = [t \in Threads |-> 0]
    /\ returned = [u \in FairUrls |-> 0]
    /\ directory = EmptyMap

\* The statements of the cache's methods, for goroutine t.
CacheStep(t) ==
    \/ AddLock(t) \/ AddStoreVol(t) \/ AddStoreNext(t)
    \/ GetRLock(t) \/ GetRead(t)
    \/ GnRLock(t) \/ GnReadVol(t) \/ GnReadNext(t) \/ GnReturn(t)
    \/ RemoveLock(t) \/ RemoveDelete(t)
    \/ EmptyLock(t) \/ EmptyStoreVol(t) \/ EmptyStoreNext(t)

\* Calls of the cache's methods on the volumes ids by goroutine t.
CacheCall(t, ids) ==
    \/ \E id \in ids, urls \in UrlLists : CallAdd(t, id, urls)
    \/ \E id \in ids : CallGet(t, id)
    \/ \E id \in ids : CallGetNext(t, id)
    \/ \E id \in ids : CallRemove(t, id)
    \/ CallEmpty(t)

\* Goroutines calling the cache's methods concurrently on one volume.
Next ==
    \/ \E t \in Threads : CacheCall(t, ContendedIds)
    \/ \E t \in Threads : CacheStep(t)
    \/ ConcurrentMapFault

Spec == Init /\ [][Next]_vars

\* One goroutine calling the cache's methods, one call after the other.
NextSeq ==
    \/ CacheCall(1, VolumeIds)
    \/ CacheStep(1)

SpecSeq == Init /\ [][NextSeq]_vars

\* The load test: the cache holds FairList for volume 1 and every goroutine
\* issues CallsPerThread GetNext calls on it.
InitFair ==
    /\ volumeCache = MapPut(EmptyMap, 1, FairList)
    /\ next = MapPut(EmptyMap, 1, 0)
    /\ writer = 0
    /\ readers = {}
    /\ th = [t \in Threads |-> Idle]
    /\ fault = "none"
    /\ served = [i \in VolumeIds |-> 0]
    /\ calls = [t \in Threads |-> 0]
    /\ returned = [u \in FairUrls |-> 0]
    /\ directory = EmptyMap

NextFair ==
    \/ \E t \in Threads : WorkerGetNext(t)
    \/ \E t \in Threads : GnRLock(t) \/ GnReadVol(t) \/ GnReadNext(t) \/ GnReturn(t)
    \/ ConcurrentMapFault

SpecFair == InitFair /\ [][NextFair]_vars

\* The statements of lookupVolume, for goroutine t: its own and those of the
\* GetNext and Add calls it makes.
ResolveStep(t) ==
    \/ LvLookup(t)
    \/ \E reply \in MasterReplies : LvReply(t, reply)
    \/ GnRLock(t) \/ GnReadVol(t) \/ GnReadNext(t) \/ GnReturn(t)
    \/ AddLock(t) \/ AddStoreVol(t) \/ AddStoreNext(t)

\* One goroutine calling lookupVolume, one call after the other.
NextResolveSeq ==
    \/ \E volumeID \in VolumeIdStrings : CallResolve(1, volumeID)
    \/ ResolveStep(1)

SpecResolveSeq == Init /\ [][NextResolveSeq]_vars

\* One goroutine calling lookupVolume, Empty, Get and GetNext, one call
\* after the other.
NextClear ==
    \/ \E volumeID \in VolumeIdStrings : CallResolve(1, volumeID)
    \/ ResolveStep(1)
    \/ CallEmpty(1)
    \/ EmptyLock(1) \/ EmptyStoreVol(1) \/ EmptyStoreNext(1)
    \/ \E id \in VolumeIds : CallGet(1, id) \/ CallGetNext(1, id)
    \/ GetRLock(1) \/ GetRead(1)

SpecClear == Init /\ [][NextClear]_vars

\* Concurrent callers of lookupVolume for one volume: the strings they pass
\* and the replies the master gives them (an error; one location; two
\* locations, the master having changed its answer; one location without
\* publicUrl).
SharedIdStrings == { <<"1">>, <<"a", "b", "c">> }
SharedReplies ==
    {r \in MasterReplies :
        \/ r.err
        \/ /\ r.status = StatusOK /\ "locations" \in DOMAIN r.body
           /\ r.body.locations \in
                 { <<[url |-> "u1", publicUrl |-> "a"]>>,
                   <<[url |-> "u2", publicUrl |-> "b"], [url |-> "u1", publicUrl |-> "a"]>>,
                   <<[url |-> InternalUrls[MaxLen + 1]]>> }}

\* Goroutines calling lookupVolume concurrently for the same volume.
NextResolve ==
    \/ \E t \in Threads, volumeID \in SharedIdStrings : CallResolve(t, volumeID)
    \/ \E t \in Threads : LvLookup(t)
    \/ \E t \in Threads, reply \in SharedReplies : LvReply(t, reply)
    \/ \E t \in Threads : GnRLock(t) \/ GnReadVol(t) \/ GnReadNext(t) \/ GnReturn(t)
    \/ \E t \in Threads : AddLock(t) \/ AddStoreVol(t) \/ AddStoreNext(t)
    \/ ConcurrentMapFault

SpecResolve == Init /\ [][NextResolve]_vars

\* Goroutines calling lookupVolume concurrently, each for a volume of its
\* own: goroutine 1 for volume 1, every other goroutine for volume 2.
OwnIdString(t) == IF t = 1 THEN <<"1">> ELSE <<"2">>

NextResolveApart ==
    \/ \E t \in Threads : CallResolve(t, OwnIdString(t))
    \/ \E t \in Threads : LvLookup(t)
    \/ \E t \in Threads, reply \in SharedReplies : LvReply(t, reply)
    \/ \E t \in Threads : GnRLock(t) \/ GnReadVol(t) \/ GnReadNext(t) \/ GnReturn(t)
    \/ \E t \in Threads : AddLock(t) \/ AddStoreVol(t) \/ AddStoreNext(t)
    \/ ConcurrentMapFault

SpecResolveApart == Init /\ [][NextResolveApart]_vars

\* Goroutine 1 calling Add, GetNext and Remove on volume 1 while the other
\* goroutines call lookupVolume for volume 2.
NextApart ==
    \/ \E t \in Threads \ {1} : CallResolve(t, OwnIdString(t))
    \/ \E urls \in UrlLists : CallAdd(1, 1, urls)
    \/ CallGetNext(1, 1) \/ CallRemove(1, 1)
    \/ \E t \in Threads : LvLookup(t)
    \/ \E t \in Threads, reply \in SharedReplies : LvReply(t, reply)
    \/ \E t \in Threads : GnRLock(t) \/ GnReadVol(t) \/ GnReadNext(t) \/ GnReturn(t)
    \/ \E t \in Threads : AddLock(t) \/ AddStoreVol(t) \/ AddStoreNext(t)
    \/ \E t \in Threads : RemoveLock(t) \/ RemoveDelete(t)
    \/ ConcurrentMapFault

SpecApart == Init /\ [][NextApart]_vars

\* One goroutine calling Get, one call after the other.
NextGetSeq ==
    \/ \E fid \in Fids, query \in Queries : CallGetFile(1, fid, query)
    \/ LvLookup(1)
    \/ \E reply \in SharedReplies : LvReply(1, reply)
    \/ GnRLock(1) \/ GnReadVol(1) \/ GnReadNext(1) \/ GnReturn(1)
    \/ AddLock(1) \/ AddStoreVol(1) \/ AddStoreNext(1)
    \/ GetRequest(1)
    \/ \E reply \in ReplicaReplies, writeOk \in BOOLEAN : DoReply(1, reply, writeOk)

SpecGetSeq == Init /\ [][NextGetSeq]_vars

\* One goroutine calling Get while the master's lookups fail in every way
\* lookupVolume tells apart (request error, status 404, a body that is no
\* JSON, no locations member, an empty locations array) or report one
\* location.
FailingReplies ==
    {r \in MasterReplies : ~Accepts(r)}
        \cup {r \in MasterReplies :
                 /\ Accepts(r)
                 /\ r.body.locations = <<[url |-> "u1", publicUrl |-> "a"]>>}

NextGetFail ==
    \/ \E fid \in Fids, query \in Queries : CallGetFile(1, fid, query)
    \/ LvLookup(1)
    \/ \E reply \in FailingReplies : LvReply(1, reply)
    \/ GnRLock(1) \/ GnReadVol(1) \/ GnReadNext(1) \/ GnReturn(1)
    \/ AddLock(1) \/ AddStoreVol(1) \/ AddStoreNext(1)
    \/ GetRequest(1)
    \/ \E reply \in ReplicaReplies, writeOk \in BOOLEAN : DoReply(1, reply, writeOk)

SpecGetFail == Init /\ [][NextGetFail]_vars

\* Get's construction of requestURL on its own: the goroutine has returned
\* from lookupVolume with one of these addresses ("", "h:1", "http://h",
\* "https://h/", "h/", "h", "http://h/", "HTTP://h") and builds the URL.
Addresses ==
    { <<>>, UrlText("a"), UrlText("b"), UrlText("c"), UrlText("d"), <<"h">>,
      <<"h", "t", "t", "p", ":", "/", "/", "h", "/">>,
      <<"H", "T", "T", "P", ":", "/", "/", "h">> }

InitUrl ==
    /\ volumeCache = EmptyMap
    /\ next = EmptyMap
    /\ writer = 0
    /\ readers = {}
    /\ \E a \in Addresses, fid \in Fids, query \in Queries :
           th = [t \in Threads |->
                    IF t = 1
                    THEN [Idle EXCEPT !.pc = "get_resolved", !.outer = "get", !.fid = fid,
                                      !.query = query, !.volumeURL = a]
                    ELSE Idle]
    /\ fault = "none"
    /\ served = [i \in VolumeIds |-> 0]
    /\ calls = [t \in Threads |-> 0]
    /\ returned = [u \in FairUrls |-> 0]
    /\ directory = EmptyMap

NextUrl == GetRequest(1)

SpecUrl == InitUrl /\ [][NextUrl]_vars

\* The process from the start of main: the startup, then one handler
\* goroutine serving requests for file objects.
InitMain ==
    /\ volumeCache = EmptyMap
    /\ next = EmptyMap
    /\ writer = 0
    /\ readers = {}
    /\ \E uri \in {"", "postgres://db"} :
           th = [t \in Threads |->
                    IF t = Main THEN [Idle EXCEPT !.pc = "main_start", !.postgresURI = uri]
                    ELSE Idle]
    /\ fault = "none"
    /\ served = [i \in VolumeIds |-> 0]
    /\ calls = [t \in Threads |-> 0]
    /\ returned = [u \in FairUrls |-> 0]
    /\ directory = EmptyMap

NextMain ==
    \/ MainPing
    \/ \E reply \in PingReplies : PingReturns(reply)
    \/ MainCheckPing
    \/ \E openOk \in BOOLEAN : MainOpenDb(openOk)
    \/ \E parseOk \in BOOLEAN : MainTemplates(parseOk)
    \/ \E listenOk \in BOOLEAN : MainListen(listenOk)
    \/ \E fid \in Fids : ServeRequest(1, fid)
    \/ LvLookup(1)
    \/ \E reply \in SharedReplies : LvReply(1, reply)
    \/ GnRLock(1) \/ GnReadVol(1) \/ GnReadNext(1) \/ GnReturn(1)
    \/ AddLock(1) \/ AddStoreVol(1) \/ AddStoreNext(1)
    \/ GetRequest(1)
    \/ \E reply \in ReplicaReplies, writeOk \in BOOLEAN : DoReply(1, reply, writeOk)

SpecMain == InitMain /\ [][NextMain]_vars

\* Transform on its own: an image whose header was parsed.
InitTransform ==
    /\ volumeCache = EmptyMap
    /\ next = EmptyMap
    /\ writer = 0
    /\ readers = {}
    /\ \E w \in Dimensions, h \in Dimensions :
           th = [t \in Threads |->
                    IF t = 1
                    THEN [Idle EXCEPT !.pc = "tf_call", !.header = [Width |-> w, Height |-> h]]
                    ELSE Idle]
    /\ fault = "none"
    /\ served = [i \in VolumeIds |-> 0]
    /\ calls = [t \in Threads |-> 0]
    /\ returned = [u \in FairUrls |-> 0]
    /\ directory = EmptyMap

NextTransform == TransformSize(1)

SpecTransform == InitTransform /\ [][NextTransform]_vars

\* requestHandler with SeaweedFS behind it: the SELECT returned a row of
\* Rows, with or without ?preview in the query.
InitRequest ==
    /\ volumeCache = EmptyMap
    /\ next = EmptyMap
    /\ writer = 0
    /\ readers = {}
    /\ \E r \in Rows, p \in BOOLEAN :
           th = [t \in Threads |->
                    IF t = 1
                    THEN [Idle EXCEPT !.pc = "rh_switch", !.row = r, !.preview = p,
                                      !.ctx = NewCtx]
                    ELSE Idle]
    /\ fault = "none"
    /\ served = [i \in VolumeIds |-> 0]
    /\ calls = [t \in Threads |-> 0]
    /\ returned = [u \in FairUrls |-> 0]
    /\ directory = EmptyMap

NextRequest ==
    \/ RequestFile(1)
    \/ RequestFileDone(1)
    \/ \E execOk \in BOOLEAN : RequestShortUrl(1, execOk)
    \/ LvLookup(1)
    \/ \E reply \in SharedReplies : LvReply(1, reply)
    \/ GnRLock(1) \/ GnReadVol(1) \/ GnReadNext(1) \/ GnReturn(1)
    \/ AddLock(1) \/ AddStoreVol(1) \/ AddStoreNext(1)
    \/ GetRequest(1)
    \/ \E reply \in ReplicaReplies, writeOk \in BOOLEAN : DoReply(1, reply, writeOk)

SpecRequest == InitRequest /\ [][NextRequest]_vars

\* Concurrent ?thumbnail requests for one file object, thumbnails and their
\* cache enabled, the cache directory empty.
InitThumbnail ==
    /\ volumeCache = EmptyMap
    /\ next = EmptyMap
    /\ writer = 0
    /\ readers = {}
    /\ \E cols \in Columns :
           th = [t \in Threads |->
                    [Idle EXCEPT !.pc = "tn_check", !.ctx = NewCtx,
                                 !.object = SelectObjectByBucketKey(cols)]]
    /\ fault = "none"
    /\ served = [i \in VolumeIds |-> 0]
    /\ calls = [t \in Threads |-> 0]
    /\ returned = [u \in FairUrls |-> 0]
    /\ directory = EmptyMap

NextThumbnail ==
    \/ \E t \in Threads : ThumbnailCheck(t)
    \/ \E t \in Threads, openOk \in BOOLEAN : GetThumbnail(t, openOk)
    \/ \E t \in Threads, openOk \in BOOLEAN, outcome \in TransformOutcomes :
           GenerateThumbnail(t, openOk, outcome)
    \/ \E t \in Threads, createOk \in BOOLEAN : SetThumbnailCreate(t, createOk)
    \/ \E t \in Threads : SetThumbnailCopy(t)
    \/ \E t \in Threads : SendThumbnail(t)

SpecThumbnail == InitThumbnail /\ [][NextThumbnail]_vars

\* recordMetrics on its own: a Collector with or without the whitelist, a
\* request with a Host header that is not empty, then the same header with
\* "www." in front.
InitHost ==
    /\ volumeCache = EmptyMap
    /\ next = EmptyMap
    /\ writer = 0
    /\ readers = {}
    /\ \E enable \in BOOLEAN, list \in Whitelists, h \in Hostnames :
           th = [t \in Threads |->
                    IF t = 1
                    THEN [Idle EXCEPT !.pc = "mh_call", !.hostname = h,
                                      !.collector = [enableHostnameWhitelist |-> enable,
                                                     hostnameWhitelist |-> list]]
                    ELSE Idle]
    /\ fault = "none"
    /\ served = [i \in VolumeIds |-> 0]
    /\ calls = [t \in Threads |-> 0]
    /\ returned = [u \in FairUrls |-> 0]
    /\ directory = EmptyMap

NextHost == RecordMetrics(1) \/ RequestWithWww(1)

SpecHost == InitHost /\ [][NextHost]_vars

\* The statements of Get and of the calls it makes that the goroutine
\* executes on its own: the scheduler runs a goroutine that can run.
GetProgram(t) ==
    \/ LvLookup(t)
    \/ GnRLock(t) \/ GnReadVol(t) \/ GnReadNext(t) \/ GnReturn(t)
    \/ AddLock(t) \/ AddStoreVol(t) \/ AddStoreNext(t)
    \/ GetRequest(t)

\* fasthttp.GetTimeout returns once the master answered or s.LookupTimeout
\* passed, whichever is first.
LookupReturns(t) == \E reply \in SharedReplies : LvReply(t, reply)

\* Get under the scheduling the code has: the goroutine's own statements
\* run, and the lookup at the master returns in bounded time.  fasthttp.Do
\* is given no timeout: it returns when the volume server answers or the
\* connection fails, which nothing guarantees.
SpecGetLive ==
    /\ Init /\ [][NextGetSeq]_vars
    /\ WF_vars(GetProgram(1))
    /\ WF_vars(LookupReturns(1))

\* ------------------------------------------------------------------ claims
\* Goroutine t executes the return statement of GetNext in this step.
GnReturns(t) == Pc(t) = "gn_write" /\ th'[t].pc # "gn_write"

\* Goroutine t executes the early return of GetNext in this step: it stood at
\* the read of the entry and the entry is missing or empty.
GnMissing(t) ==
    /\ Pc(t) = "gn_vol" /\ th'[t] # th[t]
    /\ (~MapHas(volumeCache, th[t].id) \/ Len(MapGetSlice(volumeCache, th[t].id)) = 0)

\* C1: with one caller, the k-th GetNext(id) after Add(id, L), N = |L| >= 1,
\* returns L[(k-1) mod N] (0-based): served[id] = k-1 calls returned before
\* it, so the step that returns stores L[(served[id] mod N) + 1] (1-based)
\* as the call's result.
C1_RoundRobin ==
    [][\A t \in Threads :
          GnReturns(t) =>
              LET L == volumeCache[th[t].id]
              IN  th'[t].ret = L[(served[th[t].id] % Len(L)) + 1]]_vars

\* C1 witness: call N+1 returned L[0] again for a list of N >= 2 URLs.
C1_Witness ==
    \E id \in DOMAIN volumeCache :
        /\ Len(volumeCache[id]) >= 2
        /\ served[id] = Len(volumeCache[id]) + 1
        /\ th[1].last = "GetNext" /\ th[1].id = id /\ th[1].pc = "idle"
        /\ th[1].ret = volumeCache[id][1]

\* C2: cursor advancement is never lost.  Once k GetNext(id) calls have
\* returned since the entry was stored, the cursor has advanced k steps
\* (mod N), and no two calls on a list of two or more URLs hold the same
\* cursor value to store the same successor.
C2_NoLostAdvance ==
    /\ \A id \in DOMAIN volumeCache :
           Len(volumeCache[id]) >= 1 =>
               MapGetInt(next, id) % Len(volumeCache[id]) = served[id] % Len(volumeCache[id])
    /\ \A t, u \in Threads :
           (t # u /\ Pc(t) = "gn_write" /\ Pc(u) = "gn_write" /\ th[t].id = th[u].id
                  /\ Len(th[t].vol) >= 2)
               => th[t].n # th[u].n

\* The maps the critical section a goroutine is inside may still read or
\* write before it unlocks.
SectionReads(p) ==
    CASE p = "gn_vol" -> {"volumeCache", "next"}
      [] p = "gn_next" -> {"next"}
      [] p = "get_read" -> {"volumeCache"}
      [] OTHER -> {}

SectionWrites(p) ==
    CASE p \in {"gn_vol", "gn_next", "gn_write"} -> {"next"}
      [] p \in {"add_vol", "em_vol"} -> {"volumeCache", "next"}
      [] p \in {"add_next", "em_next"} -> {"next"}
      [] p = "rm_del" -> {"volumeCache"}
      [] OTHER -> {}

\* C3: no data race.  No two goroutines are at once inside sections of which
\* one writes a map the other reads or writes, and the runtime never reports
\* a concurrent map access.
C3_NoDataRace ==
    /\ fault # "concurrent map access"
    /\ \A t, u \in Threads :
           t # u => SectionWrites(Pc(t)) \cap (SectionReads(Pc(u)) \cup SectionWrites(Pc(u))) = {}

\* C4: bounded unfairness.  With MaxThreads goroutines each issuing a fixed
\* number of GetNext calls on the 3-URL list, the numbers of times any two
\* URLs were returned differ by at most MaxThreads.
C4_BoundedUnfairness ==
    \A u, v \in FairUrls : returned[u] - returned[v] <= MaxThreads

\* C5: the index GetNext uses is inside the list it read, under every
\* interleaving of Add, GetNext, Remove and Empty: the panic "index out of
\* range" is unreachable.
C5_IndexInRange ==
    /\ fault # "index out of range"
    /\ \A t \in Threads : Pc(t) = "gn_write" => InRange(th[t].vol, th[t].n)

\* C5 witness: a GetNext is about to index the list with the cursor wrapped
\* to 0, the stored cursor having reached the length of the list, while
\* another goroutine waits to Add a shorter list for the same id.
C5_Witness ==
    \E t, u \in Threads :
        /\ Pc(t) = "gn_write" /\ th[t].n = 0
        /\ MapGetInt(next, th[t].id) >= Len(th[t].vol)
        /\ Pc(u) = "add_lock" /\ th[u].id = th[t].id
        /\ Len(th[u].urls) < Len(th[t].vol)

\* C6: snapshot consistency.  The list a GetNext holds is the list of the
\* cache from its read of the list to its store of the cursor: no Add (nor
\* Remove, Empty) stores into the entry inside that window, so list and
\* cursor existed together and the cursor is stored on the entry it was
\* computed from.
C6_SnapshotConsistent ==
    \A t \in Threads :
        /\ ~th[t].stale
        /\ Pc(t) \in {"gn_next", "gn_write"} =>
               /\ MapHas(volumeCache, th[t].id)
               /\ volumeCache[th[t].id] = th[t].vol

\* C6 witness: a GetNext has read list and cursor and not yet stored, while
\* an Add of another list for the same id is waiting for the lock.
C6_Witness ==
    \E t, u \in Threads :
        /\ Pc(t) = "gn_write"
        /\ Pc(u) = "add_lock" /\ th[u].id = th[t].id
        /\ th[u].urls # th[t].vol

\* C9: Add resets rotation.  The first GetNext(id) to return after
\* Add(id, newList), newList non-empty, returns newList[0].
C9_AddResetsRotation ==
    [][\A t \in Threads :
          (GnReturns(t) /\ served[th[t].id] = 0) =>
              th'[t].ret = volumeCache[th[t].id][1]]_vars

\* C9 witness: an Add replaced an entry whose cursor had advanced, and the
\* GetNext after it returned the first URL of the new list.
C9_Witness ==
    \E t, u \in Threads :
        /\ th[u].pc = "idle" /\ th[u].last = "Add" /\ th[u].over
        /\ th[t].pc = "idle" /\ th[t].last = "GetNext" /\ th[t].id = th[u].id
        /\ MapHas(volumeCache, th[t].id)
        /\ served[th[t].id] = 1
        /\ th[t].ret = volumeCache[th[t].id][1]

\* C10: empty-result safety.  GetNext(id) for an id with no entry or with an
\* empty list returns "" and changes neither map, and raises no fault.
C10_EmptyResultSafe ==
    [][\A t \in Threads :
          GnMissing(t) =>
              /\ th'[t].pc = "idle" /\ th'[t].last = "GetNext" /\ th'[t].ret = ""
              /\ volumeCache' = volumeCache /\ next' = next
              /\ fault' = "none"]_vars

\* C10 witness: GetNext returned "" for an id that was added, served and
\* removed: the entry is gone, its advanced cursor is still in the cursor map.
C10_Witness ==
    \E t, u \in Threads :
        /\ th[t].pc = "idle" /\ th[t].last = "GetNext" /\ th[t].ret = ""
        /\ th[u].pc = "idle" /\ th[u].last = "Remove" /\ th[u].id = th[t].id
        /\ ~MapHas(volumeCache, th[t].id)
        /\ MapGetInt(next, th[t].id) > 0

\* Goroutine t returns from lookupVolume in this step.
ResolveReturns(t) == Pc(t) # "idle" /\ th'[t].pc = "idle" /\ th'[t].last = "Resolve"

\* The publicUrl fields of the locations of a reply, in reported order.
PublicUrlsOf(locs) == [i \in 1..Len(locs) |-> JsonString(locs[i], "publicUrl")]

\* C7: cache population on miss.  A lookupVolume call for an id with no
\* entry sends exactly one request to the master; a call that begins right
\* after a call for the same id whose master lookup succeeded (the reply was
\* cached and a URL returned) sends none.
C7_OneLookupThenHit ==
    \A t \in Threads :
        /\ (th[t].pc = "idle" /\ th[t].last = "Resolve" /\ th[t].cold) => th[t].nlook = 1
        /\ th[t].after => th[t].nlook = 0

\* C8: on a miss with an accepted reply listing l_1..l_N, lookupVolume
\* stores the publicUrl fields in reported order and returns that of l_1;
\* each later call for the id returns the URL that is due in round-robin
\* order over l_1..l_N.
C8_CachesPublicUrlsAndRotates ==
    [][\A t \in Threads :
          /\ (Pc(t) = "add_vol" /\ th[t].caller = "lv" /\ th'[t].pc = "add_next")
                 => volumeCache'[th[t].id] = PublicUrlsOf(th[t].locs)
          /\ (ResolveReturns(t) /\ th[t].caller = "lv2")
                 => th'[t].ret = PublicUrlsOf(th[t].locs)[1]
          /\ (ResolveReturns(t) /\ th[t].exp # "?")
                 => th'[t].ret = th[t].exp]_vars

\* The decimal digits of 2^32 - 1.
MaxUint32Digits == <<"4", "2", "9", "4", "9", "6", "7", "2", "9", "5">>

\* s[i..] <= m[i..] for digit strings of equal length, digit by digit.
RECURSIVE DecLeq(_, _, _)
DecLeq(s, m, i) ==
    IF i > Len(s) THEN TRUE
    ELSE IF DigitVal(s[i]) < DigitVal(m[i]) THEN TRUE
    ELSE IF DigitVal(s[i]) > DigitVal(m[i]) THEN FALSE
    ELSE DecLeq(s, m, i + 1)

\* s is a base-10 unsigned integer that fits in 32 bits: one or more decimal
\* digits, no sign, value at most 4294967295 (strings of up to ten digits).
FitsUint32(s) ==
    /\ Len(s) >= 1 /\ Len(s) <= Len(MaxUint32Digits)
    /\ \A i \in 1..Len(s) : IsDigit(s[i])
    /\ Len(s) = Len(MaxUint32Digits) => DecLeq(s, MaxUint32Digits, 1)

\* C11: malformed identifier rejection.  lookupVolume of a string that is no
\* base-10 unsigned integer fitting in 32 bits returns "" in the same step:
\* it sends no request to the master and changes neither map.
C11_MalformedRejected ==
    [][\A t \in Threads : \A volumeID \in VolumeIdStrings :
          (CallResolve(t, volumeID) /\ ~FitsUint32(volumeID)) =>
              /\ th'[t].pc = "idle" /\ th'[t].last = "Resolve"
              /\ th'[t].ret = "" /\ th'[t].nlook = 0
              /\ volumeCache' = volumeCache /\ next' = next]_vars

\* C11 witness: lookupVolume returned "" for a string that did not parse
\* (the frame carries no id) while the cache holds an entry with an
\* advanced cursor.
C11_Witness ==
    /\ th[1].pc = "idle" /\ th[1].last = "Resolve" /\ th[1].id = 0
    /\ th[1].ret = "" /\ th[1].nlook = 0
    /\ \E id \in DOMAIN volumeCache : MapGetInt(next, id) > 0

\* C12: a lookupVolume call that returns "" after it asked the master
\* (network error, status other than 200, a body that does not parse, no
\* locations, or locations without a usable address) leaves both maps as
\* they were when the call began, and asked the master once.
C12_FailureCachesNothing ==
    [][\A t \in Threads :
          (ResolveReturns(t) /\ th'[t].ret = "" /\ th'[t].nlook >= 1) =>
              /\ volumeCache' = th[t].before.volumeCache
              /\ next' = th[t].before.next
              /\ th'[t].nlook = 1]_vars

\* C13: the cache holds no entry with an empty list of URLs, after any
\* sequence of operations.
C13_NoEmptyEntry ==
    \A id \in DOMAIN volumeCache : Len(volumeCache[id]) > 0

\* The elements of a slice.
Elements(q) == {q[i] : i \in 1..Len(q)}

\* C14: no wrong data is served.  Under concurrent lookupVolume calls, the
\* list a call stores for an id is the list of publicUrl fields of the reply
\* the master gave that call; every URL a call returns is an element of the
\* list stored last for its id; and a call that missed returns a URL only
\* after it asked the master.
C14_NoWrongData ==
    [][\A t \in Threads :
          /\ (Pc(t) = "add_vol" /\ th[t].caller = "lv" /\ th'[t].pc = "add_next")
                 => volumeCache'[th[t].id] = PublicUrlsOf(th[t].locs)
          /\ (ResolveReturns(t) /\ th'[t].ret # "") =>
                 /\ MapHas(volumeCache, th[t].id)
                 /\ th'[t].ret \in Elements(volumeCache[th[t].id])
                 /\ th[t].caller = "lv2" => th'[t].nlook = 1]_vars

\* C14 witness: a call was served "b" from the cache without asking the
\* master, from the two-location list that the other goroutine's lookup
\* stored.
C14_Witness ==
    \E t, u \in Threads :
        /\ t # u
        /\ th[t].pc = "idle" /\ th[t].last = "Resolve" /\ th[t].nlook = 0 /\ th[t].ret = "b"
        /\ th[u].pc = "idle" /\ th[u].last = "Resolve" /\ th[u].ok /\ th[u].nlook = 1
        /\ th[u].id = th[t].id
        /\ MapHas(volumeCache, th[t].id) /\ Len(volumeCache[th[t].id]) = 2

\* Goroutine t holds the mutex, for reading or for writing.
HoldsLock(t) == writer = t \/ t \in readers

\* C15: the cache lock is never held across the request to the master.  A
\* goroutine that is about to send the request or waits for the reply holds
\* the mutex neither for reading nor for writing, and while it waits every
\* other goroutine inside a lookupVolume call can take its next step unless
\* a third goroutine holds the mutex.
C15_NoLockAcrossLookup ==
    \A t \in Threads :
        Pc(t) \in {"lv_lookup", "lv_wait"} =>
            /\ ~HoldsLock(t)
            /\ \A u \in Threads \ {t} :
                   (Running /\ Pc(u) # "idle" /\ \A w \in Threads \ {t, u} : ~HoldsLock(w))
                       => ENABLED ResolveStep(u)

\* C15 witness: goroutine t waits for the master's reply for volume 1, and
\* a call for volume 2 that began while t was already waiting has returned
\* a cached URL without asking the master.
C15_Witness ==
    \E t, u \in Threads :
        /\ Pc(t) = "lv_wait" /\ th[t].id = 1
        /\ th[u].pc = "idle" /\ th[u].last = "Resolve" /\ th[u].id = 2
        /\ t \in th[u].blocked
        /\ th[u].nlook = 0 /\ th[u].ret \in Urls

\* C16: every Get call terminates, whether or not the master or the volume
\* server answers: a goroutine inside Get eventually returns from it.
C16_GetTerminates ==
    \A t \in Threads : (th[t].outer = "get") ~> (th[t].pc = "idle")

\* C17: when lookupVolume fails, Get returns 500 with a failure and no
\* headers, writes nothing, and has sent no request to a volume server.
C17_ResolutionFailure ==
    \A t \in Threads :
        (th[t].pc = "idle" /\ th[t].last = "GetFile" /\ Len(th[t].volumeURL) = 0) =>
            /\ th[t].result = [statusCode |-> 500, headers |-> "nil", err |-> TRUE,
                               written |-> <<>>]
            /\ th[t].nreq = 0

\* C17 witness: Get returned 500 for a file id whose volume id parses, the
\* lookup at the master having failed.
C17_Witness ==
    /\ th[1].pc = "idle" /\ th[1].last = "GetFile" /\ th[1].id = 1
    /\ Len(th[1].volumeURL) = 0 /\ th[1].result.statusCode = 500
    /\ ~MapHas(volumeCache, 1)

\* Letters of the texts.
IsLetter(c) == c \in {"h", "t", "p", "s", "k", "x", "q", "H", "T", "P"}

\* The address begins with a URI scheme: letters followed by "://".
CarriesScheme(a) ==
    \E k \in 1..Len(a) :
        /\ \A i \in 1..k : IsLetter(a[i])
        /\ Len(a) >= k + 3 /\ SubSeq(a, k + 1, k + 3) = <<":", "/", "/">>

\* The text without its trailing "/" characters.
RECURSIVE StripSlashes(_)
StripSlashes(a) ==
    IF Len(a) > 0 /\ a[Len(a)] = "/" THEN StripSlashes(SubSeq(a, 1, Len(a) - 1)) ELSE a

\* The fetch URL for address a, file id f and query q: a, prefixed with
\* "http://" when it carries no scheme, one "/", f, and "?" q when q is not
\* empty.
FetchURL(a, f, q) ==
    StripSlashes(IF CarriesScheme(a) THEN a ELSE <<"h", "t", "t", "p", ":", "/", "/">> \o a)
        \o <<"/">> \o f \o (IF Len(q) > 0 THEN <<"?">> \o q ELSE <<>>)

\* C18: the URL Get requests is the fetch URL of the resolved address, the
\* file id and the query, for every address, file id and query.
C18_FetchURL ==
    \A t \in Threads :
        Pc(t) = "do_wait" =>
            th[t].requestURL = FetchURL(th[t].volumeURL, th[t].fid, th[t].query)

\* C19: Get writes the body to the writer if and only if the volume server
\* answered 200 or 206; for every other status it writes nothing and
\* returns that status, the response headers and no failure.
C19_BodyOnSuccessOnly ==
    [][\A t \in Threads : \A reply \in ReplicaReplies : \A writeOk \in BOOLEAN :
          (DoReply(t, reply, writeOk) /\ ~reply.err) =>
              /\ (reply.status \in {200, 206} /\ writeOk)
                     => th'[t].result = [statusCode |-> reply.status, headers |-> reply.headers,
                                         err |-> FALSE, written |-> reply.body]
              /\ th'[t].result.written # <<>> => reply.status \in {200, 206}
              /\ reply.status \notin {200, 206}
                     => th'[t].result = [statusCode |-> reply.status, headers |-> reply.headers,
                                         err |-> FALSE, written |-> <<>>]]_vars

\* C19 witness: Get wrote the body of a 206 answer to the writer.
C19_Witness ==
    /\ th[1].pc = "idle" /\ th[1].last = "GetFile"
    /\ th[1].result.statusCode = 206 /\ th[1].result.written = <<"data">>

\* C20: when the request to the volume server fails at the network level,
\* Get returns a failure with status code 0 and no headers, and from the
\* return of lookupVolume to the return of Get neither map changes.
C20_NetworkFailure ==
    [][\A t \in Threads :
          /\ \A reply \in ReplicaReplies : \A writeOk \in BOOLEAN :
                 (DoReply(t, reply, writeOk) /\ reply.err) =>
                     th'[t].result = [statusCode |-> 0, headers |-> "nil", err |-> TRUE,
                                      written |-> <<>>]
          /\ (Pc(t) \in {"get_resolved", "do_wait"} /\ th'[t] # th[t])
                 => (volumeCache' = volumeCache /\ next' = next)]_vars

\* C20 witness: Get returned status code 0 with a failure; the entry of the
\* volume is still cached, with the cursor the resolution advanced.
C20_Witness ==
    /\ th[1].pc = "idle" /\ th[1].last = "GetFile"
    /\ th[1].result.statusCode = 0 /\ th[1].result.err
    /\ MapHas(volumeCache, th[1].id) /\ Len(volumeCache[th[1].id]) = 2
    /\ MapGetInt(next, th[1].id) = 1

\* Every cached entry has a cursor that is a position of its list or the
\* position after its last element (which GetNext wraps to 0).
CursorsValid(vc, nx) ==
    \A id \in DOMAIN vc : id \in DOMAIN nx /\ 0 <= nx[id] /\ nx[id] <= Len(vc[id])

\* C21: when writing the body of a 200 or 206 answer to the writer fails,
\* Get returns 500 with a failure, and the cache is left as the resolution
\* left it, every entry with a valid cursor.
C21_StreamFailure ==
    [][\A t \in Threads : \A reply \in ReplicaReplies :
          (DoReply(t, reply, FALSE) /\ ~reply.err /\ reply.status \in {200, 206}) =>
              /\ th'[t].result.statusCode = 500 /\ th'[t].result.err
              /\ th'[t].result.headers = "nil"
              /\ volumeCache' = volumeCache /\ next' = next
              /\ CursorsValid(volumeCache', next')]_vars

\* C21 witness: Get sent its request, returned 500 with a failure, and the
\* entry of the volume holds two URLs with the cursor on the second.
C21_Witness ==
    /\ th[1].pc = "idle" /\ th[1].last = "GetFile" /\ th[1].nreq = 1
    /\ th[1].result.statusCode = 500 /\ th[1].result.err
    /\ MapHas(volumeCache, th[1].id) /\ Len(volumeCache[th[1].id]) = 2
    /\ MapGetInt(next, th[1].id) = 1

\* C22: no retry and no fan-out inside Get.  A Get call, running or
\* returned, has sent at most one request to the master and at most one to
\* a volume server, whatever the outcome.
C22_NoRetry ==
    \A t \in Threads :
        (th[t].outer = "get" \/ th[t].last = "GetFile") =>
            /\ th[t].nlook <= 1
            /\ th[t].nreq <= 1

\* C22 witness: Get asked the master once, sent one request, and returned
\* the volume server's 500 without trying again.
C22_Witness ==
    /\ th[1].pc = "idle" /\ th[1].last = "GetFile"
    /\ th[1].nlook = 1 /\ th[1].nreq = 1
    /\ th[1].result.statusCode = 500 /\ ~th[1].result.err

\* The element that follows the one with text a in list L, in round-robin
\* order, as text.
SuccessorOf(a, L) ==
    LET i == CHOOSE j \in 1..Len(L) : UrlText(L[j]) = a
    IN  UrlText(L[(i % Len(L)) + 1])

\* C23: a caller's retry lands on the next replica.  With one caller, a Get
\* that follows a Get for the same volume, is served from the cache (no
\* refresh) and finds two or more URLs cached sends its request to another
\* address than the call before: to that address's round-robin successor.
C23_RetryNextReplica ==
    \A t \in Threads :
        (/\ Pc(t) = "do_wait" /\ Len(th[t].prevURL) > 0 /\ th[t].nlook = 0
         /\ MapHas(volumeCache, th[t].id) /\ Len(volumeCache[th[t].id]) >= 2) =>
            /\ th[t].volumeURL # th[t].prevURL
            /\ th[t].volumeURL = SuccessorOf(th[t].prevURL, volumeCache[th[t].id])

\* C23 witness: the second Get for volume 1 has sent its request to "h:1",
\* the call before it having sent its request to "http://h".
C23_Witness ==
    /\ th[1].pc = "do_wait" /\ th[1].id = 1 /\ th[1].nlook = 0
    /\ th[1].prevURL = UrlText("b") /\ th[1].volumeURL = UrlText("a")
    /\ volumeCache[1] = <<"b", "a">>

\* C24: failures of the resolver reach the caller of Get as distinguishable
\* failures: when two consecutive Get calls of a goroutine failed in
\* lookupVolume for different causes (a volume id that does not parse, a
\* master that is unreachable or answers with a status other than 200, a
\* reply that does not parse or lists no location), what the two calls
\* returned differs.
C24_FailuresDistinguishable ==
    \A t \in Threads :
        (/\ Pc(t) = "idle" /\ th[t].last = "GetFile"
         /\ th[t].cause # "none" /\ th[t].prevCause # "none"
         /\ th[t].cause # th[t].prevCause) =>
            th[t].result # th[t].prevResult

\* What a GetNext(id) call returns when it runs alone on the maps vc and nx.
GetNextResult(vc, nx, id) ==
    IF GetNextMisses(MapHas(vc, id), Len(MapGetSlice(vc, id))) THEN ""
    ELSE vc[id][Wrap(MapGetInt(nx, id), Len(vc[id])) + 1]

\* Goroutine t executes a statement of Get in this step.
GetSteps(t) == Pc(t) \in {"get_rlock", "get_read"} /\ th'[t] # th[t]

\* C25: Get(id) is read-only: every statement of Get leaves the entries and
\* the cursors as they were, so that what the next GetNext of any id returns
\* is what it would have returned without the Get, and the call returns the
\* whole list stored for id, the empty list when id has no entry.
C25_GetReadOnly ==
    [][\A t \in Threads :
          GetSteps(t) =>
              /\ volumeCache' = volumeCache
              /\ next' = next
              /\ \A id \in VolumeIds :
                     GetNextResult(volumeCache', next', id) = GetNextResult(volumeCache, next, id)
              /\ th'[t].last = "Get" =>
                     th'[t].got = IF th[t].id \in DOMAIN volumeCache
                                  THEN volumeCache[th[t].id] ELSE <<>>]_vars

\* A Get returned the whole two-element list of volume 1 while its cursor,
\* advanced by an earlier GetNext, stays where it was.
C25_Witness ==
    /\ th[1].pc = "idle" /\ th[1].last = "Get" /\ th[1].id = 1
    /\ Len(th[1].got) = 2 /\ MapHas(volumeCache, 1) /\ th[1].got = volumeCache[1]
    /\ MapGetInt(next, 1) = 1

\* Goroutine t executes the delete of Remove, and returns, in this step.
RemoveSteps(t) == Pc(t) = "rm_del" /\ th'[t] # th[t]

\* Goroutine t returns from Get or GetNext in this step.
ReadReturns(t) ==
    /\ Pc(t) \in {"get_read", "gn_vol", "gn_write"}
    /\ th'[t].pc = "idle"

\* C26: Remove is idempotent and total.  Remove(id) returns without a fault;
\* on an id without an entry it changes neither map; it leaves id without an
\* entry and every other entry as it was, so a second Remove(id) changes
\* nothing; and while id has no entry Get(id) returns no address and
\* GetNext(id) returns "", the entry coming back only through the store of
\* an Add(id, ...).
C26_RemoveIdempotent ==
    [][/\ \A t \in Threads :
             RemoveSteps(t) =>
                 /\ fault' = "none" /\ th'[t].pc = "idle" /\ th'[t].last = "Remove"
                 /\ th[t].id \notin DOMAIN volumeCache'
                 /\ DOMAIN volumeCache' = DOMAIN volumeCache \ {th[t].id}
                 /\ \A i \in DOMAIN volumeCache' : volumeCache'[i] = volumeCache[i]
                 /\ th[t].id \notin DOMAIN volumeCache =>
                        volumeCache' = volumeCache /\ next' = next
       /\ \A t \in Threads :
             (ReadReturns(t) /\ th[t].id \notin DOMAIN volumeCache) =>
                 th'[t].got = <<>> /\ th'[t].ret = ""
       /\ \A id \in VolumeIds :
             (id \notin DOMAIN volumeCache /\ id \in DOMAIN volumeCache') =>
                 \E t \in Threads : Pc(t) = "add_vol" /\ th[t].id = id]_vars

\* A GetNext on volume 1 returned "" after a Remove: the entry is gone, the
\* cursor an earlier GetNext advanced is still in the map.
C26_Witness ==
    /\ th[1].pc = "idle" /\ th[1].last = "GetNext" /\ th[1].id = 1 /\ th[1].ret = ""
    /\ ~MapHas(volumeCache, 1)
    /\ MapGetInt(next, 1) > 0

\* Goroutine t is between calls and the call that returned last is Empty.
AfterEmpty(t) == Pc(t) = "idle" /\ th[t].last = "Empty"

\* C27: Empty returns the cache to its initial state.  When Empty has
\* returned both maps are the empty maps of the constructor and the mutex is
\* free, so no id has a list or a cursor and Get and GetNext have no
\* address to report for any id; a lookupVolume that begins then finds no
\* entry for its id, and a lookupVolume that found no entry returns only
\* after one request to the master.
C27_EmptyResets ==
    [][\A t \in Threads :
          /\ AfterEmpty(t) =>
                 /\ volumeCache = EmptyMap /\ next = EmptyMap
                 /\ writer = 0 /\ readers = {}
                 /\ \A id \in VolumeIds :
                        /\ ~MapHas(volumeCache, id) /\ ~MapHas(next, id)
                        /\ MapGetSlice(volumeCache, id) = <<>>
                        /\ GetNextResult(volumeCache, next, id) = ""
                 /\ th'[t].last = "Get" => th'[t].got = <<>>
                 /\ th'[t].caller = "lv1" => th'[t].cold
          /\ (th'[t].last = "GetNext" /\ th'[t].pc = "idle" /\ th[t].pc # "idle"
                 /\ volumeCache = EmptyMap) => th'[t].ret = ""
          /\ (th[t].caller = "lv1" /\ th[t].cold) => th'[t].pc # "idle"
          /\ (th[t].pc # "idle" /\ th'[t].pc = "idle" /\ th'[t].last = "Resolve"
                 /\ th'[t].cold) => th'[t].nlook = 1]_vars

\* Empty returned after lookupVolume had cached an entry for volume 1 and
\* advanced its cursor: both are gone.
C27_Witness ==
    /\ AfterEmpty(1)
    /\ MapHas(th[1].before.volumeCache, 1) /\ MapGetInt(th[1].before.next, 1) = 1
    /\ volumeCache = EmptyMap /\ next = EmptyMap

\* An entry of the whitelist matches a hostname label for label: as many
\* labels, each equal or "*" in the entry.
LabelsMatch(entry, hostSplit) ==
    /\ Len(entry) = Len(hostSplit)
    /\ \A k \in 1..Len(entry) : entry[k] = Star \/ entry[k] = hostSplit[k]

\* C29: with the whitelist enabled MatchHostname reports a hostname as valid
\* only if the hostname, a leading "www" label dropped, matches an entry of
\* the whitelist label for label, "*" standing for exactly one label: a
\* hostname with fewer or more labels than the entry is not valid.
C29_ValidOnlyIfListed ==
    \A t \in Threads :
        (/\ Pc(t) = "mh_done" /\ th[t].collector.enableHostnameWhitelist
         /\ th[t].isValid) =>
            \E i \in 1..Len(th[t].collector.hostnameWhitelist) :
                LabelsMatch(Split(th[t].collector.hostnameWhitelist[i], Dot),
                            StripWww(Split(th[t].hostname, Dot)))

\* C30: the hostname recorded for "www." + h is the hostname recorded for
\* h, with the whitelist enabled or not.
C30_WwwStripped ==
    \A t \in Threads :
        (/\ Pc(t) = "mh_done" /\ Len(th[t].prevHostname) > 0
         /\ th[t].hostname = Www \o <<Dot>> \o th[t].prevHostname) =>
            Recorded(th[t]) = th[t].prevRecorded

\* C28: startup fails fast.  Ping returns nil exactly when the request to
\* <master>/cluster/status completed without an error and with status 200;
\* main goes on to the database, the templates and ListenAndServe only
\* after Ping returned nil, and no request is handled unless the server
\* listens.
C28_FailFast ==
    LET m == th[Main]
        answered == ~m.pingReply.err /\ m.pingReply.status = 200
    IN  /\ m.pc \notin {"main_start", "ping_wait"} => (m.pingErr = "nil" <=> answered)
        /\ m.pc \in {"main_db", "main_templates", "main_listen", "serving"} =>
               m.pingErr = "nil" /\ answered
        /\ (\E t \in Threads \ {Main} : th[t] # Idle) =>
               m.pc = "serving" /\ answered

\* The master answered the ping with 200, the server listens and a request
\* was served from a volume server.
C28_Witness ==
    /\ th[Main].pc = "serving" /\ th[Main].pingReply.status = 200
    /\ th[1].pc = "idle" /\ th[1].last = "GetFile" /\ th[1].result.statusCode = 200

\* C32: a cache entry is created and deleted as a unit: whenever no method
\* is inside its write section, a cursor is stored for an id only if an
\* address list is stored for it; after Remove(id) no cursor of id remains.
C32_EntryIsUnit ==
    writer = 0 => \A id \in DOMAIN next : id \in DOMAIN volumeCache

\* The program counters inside Add, GetNext, Remove and lookupVolume.
EntryOps ==
    {"add_lock", "add_vol", "add_next", "gn_rlock", "gn_vol", "gn_next", "gn_write",
     "rm_lock", "rm_del", "lv_lookup", "lv_wait"}

\* The address list and the cursor stored for id in the maps vc and nx.
EntryOf(vc, nx, id) ==
    [listed |-> MapHas(vc, id), list |-> MapGetSlice(vc, id),
     counted |-> MapHas(nx, id), cursor |-> MapGetInt(nx, id)]

\* C34: per-id isolation.  Every statement of Add, GetNext, Remove and
\* lookupVolume executed for id A leaves the address list and the cursor of
\* every other id B as they were, and with them what the next GetNext(B)
\* returns, whatever the interleaving with the operations on B.
C34_PerIdIsolation ==
    [][\A t \in Threads :
          (th'[t] # th[t] /\ Pc(t) \in EntryOps) =>
              \A B \in VolumeIds \ {th[t].id} :
                  /\ EntryOf(volumeCache', next', B) = EntryOf(volumeCache, next, B)
                  /\ GetNextResult(volumeCache', next', B) = GetNextResult(volumeCache, next, B)]_vars

\* Goroutine 1 removed volume 1 while the list a lookupVolume cached for
\* volume 2 and the cursor it advanced are in place.
C34_Witness ==
    /\ th[1].pc = "idle" /\ th[1].last = "Remove" /\ th[1].id = 1
    /\ ~MapHas(volumeCache, 1)
    /\ MapHas(volumeCache, 2) /\ Len(volumeCache[2]) = 2 /\ MapGetInt(next, 2) = 1

\* The state of the per-call state machine a goroutine's frame is in:
\* Start while Get is inside lookupVolume or holds its empty result,
\* Resolved once it holds a volume URL, Requesting while fasthttp.Do runs,
\* Done after a return with a nil error, Failed after a return with an
\* error; None outside Get.
Phase(f) ==
    CASE f.pc = "idle" /\ f.last = "GetFile" -> IF f.result.err THEN "Failed" ELSE "Done"
      [] f.pc = "do_wait" -> "Requesting"
      [] f.pc = "get_resolved" -> IF Len(f.volumeURL) = 0 THEN "Start" ELSE "Resolved"
      [] f.outer = "get" -> "Start"
      [] OTHER -> "None"

\* C33: each Get call follows Start, Resolved, Requesting, then Streaming
\* and Done, or Failed.  The states change only along these edges, a call
\* begins in Start, the request is sent only with a volume URL and once per
\* call, a body is written only after a 200 or 206 response, a call that
\* wrote no body on 200 or 206 failed, and no state is entered twice in a
\* call.
C33_GetStateMachine ==
    [][\A t \in Threads :
          LET p == Phase(th[t])
              q == Phase(th'[t])
          IN  p # q =>
                  /\ \/ p \in {"None", "Done", "Failed"} /\ q = "Start"
                     \/ p = "Start" /\ q \in {"Resolved", "Failed"}
                     \/ p = "Resolved" /\ q = "Requesting"
                     \/ p = "Requesting" /\ q \in {"Done", "Failed"}
                  /\ q = "Requesting" => th'[t].nreq = 1 /\ Len(th'[t].requestURL) > 0
                  /\ q \in {"Done", "Failed"} =>
                         /\ Len(th'[t].result.written) > 0 =>
                                q = "Done" /\ th'[t].result.statusCode \in {200, 206}
                         /\ (q = "Done" /\ th'[t].result.statusCode \in {200, 206}) =>
                                Len(th'[t].result.written) > 0
                         /\ th'[t].nreq = IF p = "Requesting" THEN 1 ELSE 0]_vars

\* A call that asked the master, sent its request and streamed the body of
\* a 206 response has returned.
C33_Witness ==
    /\ Phase(th[1]) = "Done" /\ th[1].nlook = 1 /\ th[1].nreq = 1
    /\ th[1].result.statusCode = 206 /\ Len(th[1].result.written) > 0

\* The whitelist entry getMatch finds for the Host header of frame f.
MatchOf(f) ==
    getMatch(parseWhitelistSlice(f.collector.hostnameWhitelist),
             StripWww(Split(f.hostname, Dot)))

\* C36: a hostname accepted through a wildcard entry "*.d" is recorded as
\* that entry, whatever label of the request the "*" stood for: hostStr is
\* exactly "*.d", so two requests accepted through the same entry are
\* recorded alike.
C36_WildcardAnonymised ==
    \A t \in Threads :
        (/\ Pc(t) = "mh_done" /\ th[t].collector.enableHostnameWhitelist
         /\ th[t].isValid /\ HasPrefix(MatchOf(th[t]), Star \o <<Dot>>)) =>
            th[t].hostStr = MatchOf(th[t])

\* C31: for every input width and height in 1..maxInputResolution the
\* computation of the target size raises no arithmetic fault, and the
\* width and the height handed to the resize are each at least 1 and at
\* most 200.
C31_TargetSize ==
    /\ fault # "integer divide by zero"
    /\ \A t \in Threads :
           (/\ Pc(t) = "tf_done"
            /\ th[t].header.Width \in 1..10000 /\ th[t].header.Height \in 1..10000) =>
               th[t].opts.Width \in 1..200 /\ th[t].opts.Height \in 1..200

\* ------------------------------------------------------------------ C35
\* The row of f is a file with a NULL backend_file_id or a short_url with a
\* NULL long_url.
NullObject(f) ==
    \/ f.row.object_type = 0 /\ ~f.row.backend_file_id.Valid
    \/ f.row.object_type = 1 /\ ~f.row.long_url.Valid

\* C35: a request for a file whose backend_file_id is NULL, or for a short_url
\* whose long_url is NULL, ends with exactly one 500 response: the handler
\* wrote the 500 once, called seaweed.Get for nothing, executed no template,
\* and the response is status 500 with the one body "500 Internal Server Error".
C35_SingleErrorResponse ==
    \A t \in Threads :
        (Pc(t) = "rh_done" /\ NullObject(th[t])) =>
            /\ th[t].effects = <<"internalServerError">>
            /\ th[t].ctx.statusCode = StatusInternalServerError
            /\ th[t].ctx.body = <<"500 Internal Server Error">>

\* ------------------------------------------------------------------ C37
\* C37: a thumbnail request answered with status 200 carries the complete
\* thumbnail, whatever the other requests for the same key did to the file
\* in the cache meanwhile.
C37_ServedComplete ==
    \A t \in Threads :
        (Pc(t) = "tn_done" /\ th[t].ctx.statusCode = StatusOK) =>
            th[t].ctx.body = Thumbnail

\* ------------------------------------------------------------------ C38
\* The object of f cannot be thumbnailed: no MD5 hash, no content type, or a
\* content type that is not accepted.
NoThumbnailFor(object) ==
    \/ object.MD5Hash = "nil"
    \/ object.ContentType = "nil"
    \/ ~AcceptedMIMEType(object.ContentType)

\* C38: the handler reaches no nil dereference, and a thumbnail request for
\* an object without MD5 hash, without content type or with a content type
\* that is not accepted ends with status 404 and the body "cannot generate
\* thumbnail" as soon as the handler has looked at the object.
C38_CannotGenerate ==
    /\ fault # "nil pointer dereference"
    /\ \A t \in Threads :
           (th[t].object # NoObject /\ NoThumbnailFor(th[t].object) /\ Pc(t) # "tn_check") =>
               /\ Pc(t) = "tn_done"
               /\ th[t].ctx.statusCode = StatusNotFound
               /\ th[t].ctx.body = <<CannotGenerate>>

====
